---- MODULE Spec2Model ----
(***************************************************************************)
(* Model of xlsx-streamer: the worksheet row extractor                     *)
(* (xlsx_generator.py), the metadata resolver (xlsx_metadata_extractor.py) *)
(* and the orchestrating handler (xlsx_handler.py).                        *)
(*                                                                         *)
(* Text is modelled as a sequence of one-character strings so that the     *)
(* character-level conversions (int(), float(), str.upper, str.isalpha,    *)
(* str.lstrip) are computed, not assumed.  Python's None for an attribute  *)
(* or for elem.text is modelled by the empty sequence (resp. the empty     *)
(* string for the cell type): the code only ever tests these values for    *)
(* truthiness or compares them with non-empty literals.                    *)
(***************************************************************************)
EXTENDS Integers, Sequences, FiniteSets, TLC

\* ------------------------------------------------------------------ bounds
MaxRows == 2
MaxCells == 2
MaxParts == 1

\* ------------------------------------------------------------- characters
Upper == <<"A","B","C","D","E","F","G","H","I","J","K","L","M",
           "N","O","P","Q","R","S","T","U","V","W","X","Y","Z">>
Lower == <<"a","b","c","d","e","f","g","h","i","j","k","l","m",
           "n","o","p","q","r","s","t","u","v","w","x","y","z">>
Digits == <<"0","1","2","3","4","5","6","7","8","9">>

Range(f) == {f[i] : i \in DOMAIN f}

IndexOf(c, seq) == CHOOSE i \in DOMAIN seq : seq[i] = c

\* str.isalpha on one character (ASCII letters; the model's alphabet has no
\* other alphabetic character)
isalpha(c) == c \in Range(Upper) \cup Range(Lower)

\* str.upper on one character
upper(c) == IF c \in Range(Lower) THEN Upper[IndexOf(c, Lower)] ELSE c

\* ord(char) - ord("A") + 1 for an upper-case ASCII letter
OrdFromA(c) == IndexOf(c, Upper)

RECURSIVE FilterAlphaUpper(_)
FilterAlphaUpper(s) ==
  IF s = <<>> THEN <<>>
  ELSE IF isalpha(upper(Head(s)))
       THEN <<upper(Head(s))>> \o FilterAlphaUpper(Tail(s))
       ELSE FilterAlphaUpper(Tail(s))

RECURSIVE Base26(_, _)
Base26(col_part, index) ==
  IF col_part = <<>> THEN index
  ELSE Base26(Tail(col_part), index * 26 + OrdFromA(Head(col_part)))

\* a plausible slip: the "+ 1" of the bijective numeration is forgotten
RECURSIVE Base26Plain(_, _)
Base26Plain(col_part, index) ==
  IF col_part = <<>> THEN index
  ELSE Base26Plain(Tail(col_part), index * 26 + (OrdFromA(Head(col_part)) - 1))

address_to_index_plain(address) == Base26Plain(FilterAlphaUpper(address), 0)

\* StreamingXlsxReader._address_to_index
address_to_index(address) == Base26(FilterAlphaUpper(address), 0) - 1

\* ------------------------------------------------------------ cell values
\* A Python cell value: str, int or float.  A float is kept as the decimal
\* m * 10^e with m free of trailing zeros.
StrV(s) == [k |-> "str", s |-> s, n |-> 0, e |-> 0]
IntV(n) == [k |-> "int", s |-> <<>>, n |-> n, e |-> 0]
FloatV(m, e) == [k |-> "float", s |-> <<>>, n |-> m, e |-> e]
Empty == StrV(<<>>)

IsDigit(c) == c \in Range(Digits)
DigitVal(c) == IndexOf(c, Digits) - 1

RECURSIVE LStripSpace(_)
LStripSpace(s) ==
  IF s # <<>> /\ Head(s) = " " THEN LStripSpace(Tail(s)) ELSE s

RECURSIVE RStripSpace(_)
RStripSpace(s) ==
  IF s # <<>> /\ s[Len(s)] = " " THEN RStripSpace(SubSeq(s, 1, Len(s) - 1)) ELSE s

\* int() and float() ignore surrounding whitespace
Strip(s) == RStripSpace(LStripSpace(s))

\* digit (["_"] digit)* : the digit part of a Python numeric literal
ValidDigitPart(s) ==
  /\ s # <<>>
  /\ \A i \in DOMAIN s :
        \/ IsDigit(s[i])
        \/ /\ s[i] = "_"
           /\ i > 1 /\ i < Len(s)
           /\ IsDigit(s[i - 1]) /\ IsDigit(s[i + 1])

RECURSIVE DigitsValue(_, _)
DigitsValue(s, acc) ==
  IF s = <<>> THEN acc
  ELSE IF Head(s) = "_" THEN DigitsValue(Tail(s), acc)
       ELSE DigitsValue(Tail(s), acc * 10 + DigitVal(Head(s)))

RECURSIVE CountDigits(_)
CountDigits(s) ==
  IF s = <<>> THEN 0
  ELSE (IF IsDigit(Head(s)) THEN 1 ELSE 0) + CountDigits(Tail(s))

HasSign(s) == s # <<>> /\ Head(s) \in {"-", "+"}
Unsigned(s) == IF HasSign(s) THEN Tail(s) ELSE s
SignOf(s) == IF s # <<>> /\ Head(s) = "-" THEN -1 ELSE 1

\* int(text): [ok |-> FALSE] stands for ValueError
py_int(text) ==
  LET t == Strip(text)
      body == Unsigned(t)
  IN IF ValidDigitPart(body)
     THEN [ok |-> TRUE, n |-> SignOf(t) * DigitsValue(body, 0)]
     ELSE [ok |-> FALSE, n |-> 0]

\* position of the first character of s that lies in cs, 0 when none does
FirstIn(s, cs) ==
  IF \E i \in DOMAIN s : s[i] \in cs
  THEN CHOOSE i \in DOMAIN s : s[i] \in cs /\ \A j \in 1..(i - 1) : s[j] \notin cs
  ELSE 0

RECURSIVE Normalize(_, _)
Normalize(m, e) ==
  IF m = 0 THEN [m |-> 0, e |-> 0]
  ELSE IF m % 10 = 0 THEN Normalize(m \div 10, e + 1)
       ELSE [m |-> m, e |-> e]

\* float(text) for decimal literals: [sign] digits [. digits] [(e|E) [sign] digits]
py_float(text) ==
  LET t == Strip(text)
      u == Unsigned(t)
      ep == FirstIn(u, {"e", "E"})
      mant == IF ep = 0 THEN u ELSE SubSeq(u, 1, ep - 1)
      expo == IF ep = 0 THEN <<>> ELSE SubSeq(u, ep + 1, Len(u))
      dp == FirstIn(mant, {"."})
      ip == IF dp = 0 THEN mant ELSE SubSeq(mant, 1, dp - 1)
      fp == IF dp = 0 THEN <<>> ELSE SubSeq(mant, dp + 1, Len(mant))
      mantOk == /\ ip = <<>> \/ ValidDigitPart(ip)
                /\ fp = <<>> \/ ValidDigitPart(fp)
                /\ ip # <<>> \/ fp # <<>>
      expOk == ep = 0 \/ ValidDigitPart(Unsigned(expo))
      ev == IF ep = 0 THEN 0 ELSE SignOf(expo) * DigitsValue(Unsigned(expo), 0)
      nz == Normalize(SignOf(t) * DigitsValue(ip \o fp, 0), ev - CountDigits(fp))
  IN IF mantOk /\ expOk
     THEN [ok |-> TRUE, m |-> nz.m, e |-> nz.e]
     ELSE [ok |-> FALSE, m |-> 0, e |-> 0]

\* "".join(parts)
RECURSIVE join(_)
join(parts) == IF parts = <<>> THEN <<>> ELSE Head(parts) \o join(Tail(parts))

\* a shared-string index treated as 1-based (a plausible slip)
shared_string_value_one_based(joined, shared_strings) ==
  LET r == py_int(joined)
      str_index == IF r.ok THEN r.n ELSE -1
  IN IF str_index >= 1 /\ str_index <= Len(shared_strings)
     THEN StrV(shared_strings[str_index])
     ELSE Empty

\* the lower bound of the index check forgotten: a negative index then
\* counts from the end of the list
shared_string_value_no_lower_bound(joined, shared_strings) ==
  LET r == py_int(joined)
      str_index == IF r.ok THEN r.n ELSE -1
      p == IF str_index >= 0 THEN str_index + 1
           ELSE Len(shared_strings) + str_index + 1
  IN IF str_index < Len(shared_strings) /\ p >= 1
     THEN StrV(shared_strings[p])
     ELSE Empty

\* current_cell_type == "s": xlsx_generator.py lines 109-122
shared_string_value(joined, shared_strings) ==
  LET r == py_int(joined)
      str_index == IF r.ok THEN r.n ELSE -1
  IN IF str_index >= 0 /\ str_index < Len(shared_strings)
     THEN StrV(shared_strings[str_index + 1])
     ELSE Empty

\* every other cell type: xlsx_generator.py lines 125-137
numeric_value(joined) ==
  IF joined # <<>>
  THEN IF "." \in Range(joined)
       THEN LET f == py_float(joined)
            IN IF f.ok THEN FloatV(f.m, f.e) ELSE StrV(joined)
       ELSE LET r == py_int(joined)
            IN IF r.ok THEN IntV(r.n) ELSE StrV(joined)
  ELSE StrV(joined)

\* the value of a <v> cell: xlsx_generator.py lines 107-137
cell_value_of(current_cell_type, joined, shared_strings) ==
  IF current_cell_type = "s"
  THEN shared_string_value(joined, shared_strings)
  ELSE numeric_value(joined)

\* ------------------------------------------------- sparse row (RowDict)
\* A dict is kept as the sequence of its items in insertion order.
Keys(d) == {d[i].c : i \in DOMAIN d}

DictGet(d, c) == d[CHOOSE i \in DOMAIN d : d[i].c = c].v

\* d[c] = v : an existing key keeps its place
DictSet(d, c, v) ==
  IF c \in Keys(d)
  THEN [i \in DOMAIN d |-> IF d[i].c = c THEN [c |-> c, v |-> v] ELSE d[i]]
  ELSE Append(d, [c |-> c, v |-> v])

Max(S) == CHOOSE x \in S : \A y \in S : y <= x

\* for col_index, value in sparse_row.items(): dense_row[col_index] = value
\* A negative index counts from the end of the list; an index outside the
\* list raises IndexError.
RECURSIVE FillDense(_, _)
FillDense(items, acc) ==
  IF items = <<>> \/ acc.raised THEN acc
  ELSE LET L == Len(acc.row)
           c == Head(items).c
           p == IF c >= 0 THEN c + 1 ELSE L + c + 1
       IN IF p < 1 \/ p > L
          THEN [raised |-> TRUE, row |-> acc.row]
          ELSE FillDense(Tail(items),
                         [raised |-> FALSE,
                          row |-> [acc.row EXCEPT ![p] = Head(items).v]])

\* StreamingXlsxReader._sparse_to_dense_row
sparse_to_dense_row(sparse_row) ==
  IF sparse_row = <<>> THEN [raised |-> FALSE, row |-> <<>>]
  ELSE LET max_col_index == Max(Keys(sparse_row))
       IN FillDense(sparse_row,
                    [raised |-> FALSE,
                     row |-> [i \in 1..(max_col_index + 1) |-> Empty]])

\* --------------------------------------------------- worksheet inputs
PoolA == <<"h">>
PoolB == <<"w">>
Pools == { <<>>, <<PoolA, PoolB>> }
WsAddresses == { <<>>, <<"A","1">>, <<"B","1">>, <<"1">> }
WsTypes == { "", "s", "inlineStr" }
WsTexts == { <<>>, <<"0">>, <<"1">>, <<"-","1">>, <<"x">> }
ChildTexts == { <<>>, <<"0">> }
RowIds == { 1, 3 }

VARIABLES
  shared_strings,           \* the pool handed to _streaming_parse_worksheet
  current_row,
  current_cell_address,
  current_cell_type,
  collecting_value,
  collecting_inline_text,
  current_value_parts,
  stack,                    \* open elements of the worksheet document
  pc,                       \* "parse", "yield", "done", "failed", "idle"
  yielded,                  \* the row handed to the consumer at the yield
  nRows, nCells, nParts,    \* elements of each kind started so far in
                            \* the document (the input is bounded)
  kids,                     \* children of the open <c> seen so far: "",
                            \* "f" (a formula) or "value" (<v> or <is>)
  cur_r,                    \* r attribute of the open <row>
  docLog,                   \* r of every ended <row> that had recorded cells
  emitLog,                  \* r of every yielded row
  fin,                      \* the cell finalized by the last event, if any
  seen,                     \* the text of the elements ended so far inside
                            \* the open <is>, in document order
  pool0                     \* the pool as handed over by the caller

wsVars == <<shared_strings, current_row, current_cell_address,
            current_cell_type, collecting_value, collecting_inline_text,
            current_value_parts, stack, pc, yielded, nRows, nCells, kids,
            nParts, cur_r, docLog, emitLog, fin, seen, pool0>>

VARIABLES
  addr_pc,                  \* "call", "ret" or "idle"
  address,                  \* the argument of _address_to_index
  index                     \* its result

addrVars == <<addr_pc, address, index>>

VARIABLES
  cell_pc,                  \* "call", "ret" or "idle"
  cell_type,                \* current_cell_type at the </v>
  cell_text,                \* the joined text of the cell
  cell_result               \* the value computed for the cell

cellVars == <<cell_pc, cell_type, cell_text, cell_result>>

VARIABLES
  archive,                  \* the parts of the ZIP archive, in stream order
  sheet_name,               \* the argument of extract_metadata ("" for None)
  pos,                      \* parts the loop of extract_metadata has taken
  workbook_chunks,          \* bodies collected from xl/workbook.xml
  rels_chunks,              \* bodies collected from xl/_rels/workbook.xml.rels
  shared_strings_list,      \* the pool parsed so far
  undrained,                \* the last part was left with unread bytes
  meta_pc,                  \* "loop", "returned", "raised" or "idle"
  meta_error,               \* the exception that left extract_metadata
  target_filepath,          \* the worksheet path extract_metadata returned
  last_op,                  \* what the loop did with the last part
  h_pc,                     \* XlsxHandler.stream_rows: "meta", "rows" (the
                            \* loop over the parts), "sheet" (inside the
                            \* worksheet), "done" or "failed"
  h_emitted,                \* the handler has yielded a row
  opens,                    \* calls of source.get_stream so far
  pos2,                     \* parts the loop of the row pass has taken
  pending,                  \* rows of the worksheet not yet yielded
  streams                   \* the streams get_stream has returned, each
                            \* "open" or "closed", in the order of the calls

metaVars == <<archive, sheet_name, pos, workbook_chunks, rels_chunks,
              shared_strings_list, undrained, meta_pc, meta_error,
              target_filepath, last_op, h_pc, h_emitted, opens, pos2,
              pending, streams>>

VARIABLES
  iterator,                 \* IterableToFile: the chunks not yet taken
  buffer,                   \* IterableToFile.buffer
  read_size,                \* the argument of the last read
  read_result,              \* what the last read returned
  before,                   \* buffer and iterator when the last read began
  file_pc,                  \* "open", or "idle"
  pulled,                   \* the bytes of the chunks taken from the iterator
  returned                  \* the bytes the reads have returned, in order

fileVars == <<iterator, buffer, read_size, read_result, before, file_pc,
              pulled, returned>>

VARIABLES
  cli_pc,                   \* main: "start", "reader" (the reader exists),
                            \* "except" (an exception left the try body),
                            \* "exited" or "idle"
  cli_args,                 \* source, output ("" for None) and verbose
  cli_exc,                  \* the exception that left the try body, if any
  stdout,                   \* rows written to sys.stdout.buffer
  stderr,                   \* what was echoed to the error stream
  exit_code                 \* the exit status, -1 while main runs

cliVars == <<cli_pc, cli_args, cli_exc, stdout, stderr, exit_code>>

VARIABLES
  sst_doc,                  \* the root element of xl/sharedStrings.xml
  sst_events,               \* the "end" events the pull parser has still to
                            \* deliver, in order
  sst_strings,              \* shared_strings of _parse_shared_strings_xml
  sst_pc                    \* "parse", "returned" or "idle"

sstVars == <<sst_doc, sst_events, sst_strings, sst_pc>>

VARIABLES
  csv_sink,                 \* the kind of the output argument of to_csv
  csv_rows,                 \* the lines the row stream has still to yield
  csv_fails,                \* the row stream raises after those lines
  csv_pc,                   \* "call", "loop", "returned", "raised" or "idle"
  csv_branch,               \* the branch of to_csv taken: "path", "binary"
                            \* or "text"
  csv_written,              \* what the sink received, in order
  csv_file,                 \* the file to_csv opened: "none", "open", "closed"
  csv_exc,                  \* the exception that left to_csv, if any
  csv_rows0                 \* all the lines of the row stream

csvVars == <<csv_sink, csv_rows, csv_fails, csv_pc, csv_branch, csv_written,
             csv_file, csv_exc, csv_rows0>>

VARIABLES
  px_fn,                    \* the part parser called
  px_chunks,                \* the bodies handed to it
  px_arg,                   \* its second argument
  px_pc,                    \* "call", "returned", "raised" or "idle"
  px_result,                \* what it returned: <<>> stands for None
  px_exc                    \* the exception that left it, if any

parseVars == <<px_fn, px_chunks, px_arg, px_pc, px_result, px_exc>>

VARIABLES
  rr_pc,                    \* "extractor" (the handler asks the extractor for
                            \* a row), "chunk" (the reader holds the bytes the
                            \* handler yielded), "done" or "idle"
  rr_row,                   \* the row the extractor emitted last
  rr_chunk,                 \* the bytes the handler made of it
  rr_out,                   \* the rows the reader yielded for those bytes
  rr_emitted,               \* rows emitted by the extractor so far
  rr_yielded                \* rows yielded by the reader so far

rowsVars == <<rr_pc, rr_row, rr_chunk, rr_out, rr_emitted, rr_yielded>>

extVars == <<fileVars, cliVars, sstVars, csvVars, parseVars, rowsVars>>



NoFin == [done |-> FALSE, via |-> "", t |-> "", text |-> <<>>, addr |-> <<>>,
          value |-> Empty, seen |-> <<>>]

Top == IF stack = <<>> THEN "" ELSE stack[Len(stack)]
Pop == SubSeq(stack, 1, Len(stack) - 1)

\* locals of _streaming_parse_worksheet before the event loop (lines 70-78)
InitWs ==
  /\ shared_strings \in Pools
  /\ pool0 = shared_strings
  /\ current_row = <<>>
  /\ current_cell_address = <<>>
  /\ current_cell_type = ""
  /\ collecting_value = FALSE
  /\ collecting_inline_text = FALSE
  /\ current_value_parts = <<>>
  /\ stack = <<>>
  /\ pc = "parse"
  /\ yielded = <<>>
  /\ nRows = 0 /\ nCells = 0 /\ nParts = 0 /\ kids = ""
  /\ cur_r = 0
  /\ docLog = <<>>
  /\ emitLog = <<>>
  /\ fin = NoFin
  /\ seen = <<>>

\* event == "start", tag == "row"  (lines 85-86)
StartRow(r) ==
  /\ pc = "parse" /\ stack = <<>> /\ nRows < MaxRows
  /\ UNCHANGED <<addrVars, cellVars, metaVars, extVars>>
  /\ UNCHANGED seen
  /\ current_row' = <<>>
  /\ stack' = Append(stack, "row")
  /\ nRows' = nRows + 1 /\ cur_r' = r
  /\ fin' = NoFin
  /\ UNCHANGED <<shared_strings, pool0, current_cell_address, current_cell_type,
                 collecting_value, collecting_inline_text, current_value_parts,
                 pc, yielded, nCells, kids, nParts, docLog, emitLog>>

\* event == "start", tag == "c"  (lines 87-89)
StartC(r, t) ==
  /\ pc = "parse" /\ Top = "row" /\ nCells < MaxCells
  /\ UNCHANGED <<addrVars, cellVars, metaVars, extVars>>
  /\ UNCHANGED seen
  /\ current_cell_address' = r
  /\ current_cell_type' = t
  /\ stack' = Append(stack, "c")
  /\ nCells' = nCells + 1 /\ kids' = ""
  /\ fin' = NoFin
  /\ UNCHANGED <<shared_strings, pool0, current_row, collecting_value,
                 collecting_inline_text, current_value_parts, pc, yielded,
                 nRows, nParts, cur_r, docLog, emitLog>>

\* event == "start", tag == "v"  (lines 90-92)
StartV ==
  /\ pc = "parse" /\ Top = "c" /\ kids # "value"
  /\ UNCHANGED <<addrVars, cellVars, metaVars, extVars>>
  /\ UNCHANGED seen
  /\ IF current_cell_address # <<>>
     THEN collecting_value' = TRUE /\ current_value_parts' = <<>>
     ELSE UNCHANGED <<collecting_value, current_value_parts>>
  /\ stack' = Append(stack, "v")
  /\ kids' = "value"
  /\ fin' = NoFin
  /\ UNCHANGED <<shared_strings, pool0, current_row, current_cell_address,
                 current_cell_type, collecting_inline_text, pc, yielded,
                 nRows, nCells, nParts, cur_r, docLog, emitLog>>

\* event == "start", tag == "is"  (lines 94-96)
StartIs ==
  /\ pc = "parse" /\ Top = "c" /\ kids # "value"
  /\ UNCHANGED <<addrVars, cellVars, metaVars, extVars>>
  /\ IF current_cell_type = "inlineStr" /\ current_cell_address # <<>>
     THEN collecting_inline_text' = TRUE /\ current_value_parts' = <<>>
     ELSE UNCHANGED <<collecting_inline_text, current_value_parts>>
  /\ seen' = <<>>
  /\ stack' = Append(stack, "is")
  /\ kids' = "value"
  /\ fin' = NoFin
  /\ UNCHANGED <<shared_strings, pool0, current_row, current_cell_address,
                 current_cell_type, collecting_value, pc, yielded,
                 nRows, nCells, nParts, cur_r, docLog, emitLog>>

\* event == "start" for any other element: <f> under <c>, <t> or <f> under
\* <v> or <is>  (lines 97-98: nothing is done)
StartOther(tag) ==
  /\ pc = "parse"
  /\ UNCHANGED <<addrVars, cellVars, metaVars, extVars>>
  /\ UNCHANGED seen
  /\ \/ Top = "c" /\ tag = "f" /\ kids = "" /\ kids' = "f"
        /\ nParts' = nParts
     \/ Top \in {"v", "is"} /\ nParts < MaxParts /\ nParts' = nParts + 1
        /\ kids' = kids
  /\ stack' = Append(stack, tag)
  /\ fin' = NoFin
  /\ UNCHANGED <<shared_strings, pool0, current_row, current_cell_address,
                 current_cell_type, collecting_value, collecting_inline_text,
                 current_value_parts, pc, yielded, nRows, nCells, cur_r,
                 docLog, emitLog>>

\* an inline string that goes through the conversion of the <v> cells
inline_value_converted(parts) == numeric_value(join(parts))

\* inline_value = "".join(current_value_parts)  (line 152)
inline_value_of(parts) == StrV(join(parts))

\* an "end" branch that keeps the text whether or not a value is collected
AppendTextAlways(text) ==
  IF text # <<>>
  THEN current_value_parts' = Append(current_value_parts, text)
  ELSE UNCHANGED current_value_parts

\* the last branch of the "end" chain (lines 168-169)
AppendText(text) ==
  IF (collecting_value \/ collecting_inline_text) /\ text # <<>>
  THEN current_value_parts' = Append(current_value_parts, text)
  ELSE UNCHANGED current_value_parts

\* event == "end", tag == "v"  (lines 101-145)
EndV(text) ==
  /\ pc = "parse" /\ Top = "v"
  /\ UNCHANGED <<addrVars, cellVars, metaVars, extVars>>
  /\ UNCHANGED seen
  /\ IF collecting_value
     THEN LET parts == IF text # <<>> THEN Append(current_value_parts, text)
                       ELSE current_value_parts
              cell_value == cell_value_of(current_cell_type, join(parts),
                                          shared_strings)
          IN /\ current_row' =
                  IF current_cell_address # <<>>
                  THEN DictSet(current_row,
                               address_to_index(current_cell_address), cell_value)
                  ELSE current_row
             /\ collecting_value' = FALSE
             /\ current_value_parts' = <<>>
             /\ fin' = [done |-> TRUE, via |-> "v", t |-> current_cell_type,
                        text |-> join(parts), addr |-> current_cell_address,
                        value |-> cell_value, seen |-> <<>>]
     ELSE /\ AppendText(text)
          /\ fin' = NoFin
          /\ UNCHANGED <<current_row, collecting_value>>
  /\ stack' = Pop
  /\ UNCHANGED <<shared_strings, pool0, current_cell_address, current_cell_type,
                 collecting_inline_text, pc, yielded, nRows, nCells, kids,
                 nParts, cur_r, docLog, emitLog>>

\* event == "end", tag == "is"  (lines 148-159)
EndIs(text) ==
  /\ pc = "parse" /\ Top = "is"
  /\ UNCHANGED <<addrVars, cellVars, metaVars, extVars>>
  /\ IF collecting_inline_text
     THEN LET inline_value == join(current_value_parts)
          IN /\ current_row' =
                  IF current_cell_address # <<>>
                  THEN DictSet(current_row,
                               address_to_index(current_cell_address),
                               inline_value_of(current_value_parts))
                  ELSE current_row
             /\ collecting_inline_text' = FALSE
             /\ current_value_parts' = <<>>
             /\ fin' = [done |-> TRUE, via |-> "is", t |-> current_cell_type,
                        text |-> inline_value, addr |-> current_cell_address,
                        value |-> inline_value_of(current_value_parts),
                        seen |-> seen]
     ELSE /\ AppendText(text)
          /\ fin' = NoFin
          /\ UNCHANGED <<current_row, collecting_inline_text>>
  /\ seen' = <<>>
  /\ stack' = Pop
  /\ UNCHANGED <<shared_strings, pool0, current_cell_address, current_cell_type,
                 collecting_value, pc, yielded, nRows, nCells, kids, nParts,
                 cur_r, docLog, emitLog>>

\* rows reach the consumer sorted by their declared index (a reader that
\* orders by the r attribute)
RECURSIVE EmitByIndex(_, _)
EmitByIndex(log, r) ==
  IF log = <<>> THEN <<r>>
  ELSE IF r < Head(log) THEN <<r>> \o log
       ELSE <<Head(log)>> \o EmitByIndex(Tail(log), r)

\* yield dense_row (line 165): the row is the next one the consumer sees
Emit(log, r) == Append(log, r)

\* event == "end", tag == "row"  (lines 161-165): the generator is left
\* suspended at the yield, or the IndexError of the densification escapes
EndRow ==
  /\ pc = "parse" /\ Top = "row"
  /\ UNCHANGED <<addrVars, cellVars, metaVars, extVars>>
  /\ UNCHANGED seen
  /\ stack' = Pop
  /\ fin' = NoFin
  /\ IF current_row # <<>>
     THEN LET dense_row == sparse_to_dense_row(current_row)
          IN /\ docLog' = Append(docLog, cur_r)
             /\ IF dense_row.raised
                THEN pc' = "failed" /\ UNCHANGED <<yielded, emitLog>>
                ELSE /\ pc' = "yield"
                     /\ yielded' = dense_row.row
                     /\ emitLog' = Emit(emitLog, cur_r)
             /\ UNCHANGED current_row
     ELSE /\ current_row' = <<>>
          /\ UNCHANGED <<pc, yielded, docLog, emitLog>>
  /\ UNCHANGED <<shared_strings, pool0, current_cell_address, current_cell_type,
                 collecting_value, collecting_inline_text, current_value_parts,
                 nRows, nCells, kids, nParts, cur_r>>

\* the consumer asks for the next row: the generator resumes after the
\* yield (line 166) and clears the element
Resume ==
  /\ pc = "yield"
  /\ UNCHANGED <<addrVars, cellVars, metaVars, extVars>>
  /\ UNCHANGED seen
  /\ current_row' = <<>>
  /\ yielded' = <<>>
  /\ pc' = "parse"
  /\ fin' = NoFin
  /\ UNCHANGED <<shared_strings, pool0, current_cell_address, current_cell_type,
                 collecting_value, collecting_inline_text, current_value_parts,
                 stack, nRows, nCells, kids, nParts, cur_r, docLog, emitLog>>

\* event == "end" for any other element: <c>, <t>, <f>  (lines 168-169)
EndOther(text) ==
  /\ pc = "parse" /\ Top \in {"c", "t", "f"}
  /\ UNCHANGED <<addrVars, cellVars, metaVars, extVars>>
  /\ Top = "c" => text = <<>>
  /\ AppendText(text)
  /\ seen' = IF "is" \in Range(stack) THEN seen \o text ELSE seen
  /\ stack' = Pop
  /\ fin' = NoFin
  /\ UNCHANGED <<shared_strings, pool0, current_row, current_cell_address,
                 current_cell_type, collecting_value, collecting_inline_text,
                 pc, yielded, nRows, nCells, kids, nParts, cur_r, docLog,
                 emitLog>>

\* the document ends: iterparse is exhausted and the generator returns
EndOfSheet ==
  /\ pc = "parse" /\ stack = <<>>
  /\ UNCHANGED <<addrVars, cellVars, metaVars, extVars>>
  /\ UNCHANGED seen
  /\ pc' = "done"
  /\ fin' = NoFin
  /\ UNCHANGED <<shared_strings, pool0, current_row, current_cell_address,
                 current_cell_type, collecting_value, collecting_inline_text,
                 current_value_parts, stack, yielded, nRows, nCells, kids,
                 nParts, cur_r, docLog, emitLog>>

NextWs ==
  \/ \E r \in RowIds : StartRow(r)
  \/ \E r \in WsAddresses, t \in WsTypes : StartC(r, t)
  \/ StartV
  \/ StartIs
  \/ \E tag \in {"t", "f"} : StartOther(tag)
  \/ \E text \in WsTexts : EndV(text)
  \/ \E text \in ChildTexts : EndIs(text)
  \/ \E text \in ChildTexts : EndOther(text)
  \/ EndRow
  \/ Resume
  \/ EndOfSheet

\* the worksheet extractor is not running (another specification is checked)
IdleWs ==
  /\ shared_strings = <<>> /\ pool0 = <<>>
  /\ current_row = <<>>
  /\ current_cell_address = <<>>
  /\ current_cell_type = ""
  /\ collecting_value = FALSE
  /\ collecting_inline_text = FALSE
  /\ current_value_parts = <<>>
  /\ stack = <<>>
  /\ pc = "idle"
  /\ yielded = <<>>
  /\ nRows = 0 /\ nCells = 0 /\ nParts = 0 /\ kids = ""
  /\ cur_r = 0
  /\ docLog = <<>>
  /\ emitLog = <<>>
  /\ seen = <<>>
  /\ fin = NoFin

\* ------------------------------------------- an inline string on its own
\* The extractor has read <row r=".."> and <c r=".." t=".."> of a worksheet;
\* the cell holds one <is> with up to MaxRuns text elements.
MaxRuns == 2

InlineTexts == { <<>>, <<"0">>, <<"B">>, <<"1", "2">> }

InitInline ==
  /\ shared_strings \in Pools
  /\ pool0 = shared_strings
  /\ current_row = <<>>
  /\ current_cell_address \in WsAddresses
  /\ current_cell_type \in WsTypes
  /\ collecting_value = FALSE
  /\ collecting_inline_text = FALSE
  /\ current_value_parts = <<>>
  /\ stack = <<"row", "c">>
  /\ pc = "parse"
  /\ yielded = <<>>
  /\ nRows = 1 /\ nCells = 1 /\ nParts = 0 /\ kids = ""
  /\ cur_r \in RowIds
  /\ docLog = <<>>
  /\ emitLog = <<>>
  /\ fin = NoFin
  /\ seen = <<>>

\* event == "start", tag == "t" under <is>  (lines 97-98: nothing is done)
StartRun ==
  /\ pc = "parse" /\ Top = "is" /\ nParts < MaxRuns
  /\ UNCHANGED <<addrVars, cellVars, metaVars, extVars>>
  /\ UNCHANGED seen
  /\ stack' = Append(stack, "t")
  /\ nParts' = nParts + 1
  /\ fin' = NoFin
  /\ UNCHANGED <<shared_strings, pool0, current_row, current_cell_address,
                 current_cell_type, collecting_value, collecting_inline_text,
                 current_value_parts, pc, yielded, nRows, nCells, kids, cur_r,
                 docLog, emitLog>>

NextInline ==
  \/ StartIs
  \/ StartRun
  \/ \E text \in InlineTexts : EndOther(text)
  \/ \E text \in ChildTexts : EndIs(text)

\* ------------------------------------------- _address_to_index on its own
MaxLetters == 3

RECURSIVE SeqsUpTo(_, _)
SeqsUpTo(S, n) ==
  IF n = 0 THEN { <<>> }
  ELSE LET shorter == SeqsUpTo(S, n - 1)
       IN shorter \cup { Append(q, x) : q \in shorter, x \in S }

AddrLetters == { "A", "B", "Z", "a", "z" }
AddrRowDigits == { <<"1">>, <<"9", "9">>, <<"1", "0", "0">> }
AddrInputs ==
  { l \o d : l \in SeqsUpTo(AddrLetters, MaxLetters) \ { <<>> }, d \in AddrRowDigits }

InitAddr ==
  /\ addr_pc = "call"
  /\ address \in AddrInputs
  /\ index = 0

IdleAddr ==
  /\ addr_pc = "idle"
  /\ address = <<>>
  /\ index = 0

\* a call of _address_to_index (lines 229-235)
CallAddressToIndex ==
  /\ addr_pc = "call"
  /\ UNCHANGED <<wsVars, cellVars, metaVars, extVars>>
  /\ index' = address_to_index(address)
  /\ addr_pc' = "ret"
  /\ UNCHANGED address

\* --------------------------------------- the value of a <v> cell on its own
MaxTextLen == 4

NumAlphabet == { "1", "3", "4", ".", "e", "E", "-", "_" }
CellTexts ==
  SeqsUpTo(NumAlphabet, MaxTextLen)
    \cup { <<"4", "2">>, <<"#", "N", "/", "A">>, <<" ", "4", "2">>, <<"0">> }
\* the t attribute: absent, number, boolean, formula string, error, and a
\* code the reader has no branch for (d, an ISO 8601 date)
CellTypes == { "", "n", "b", "str", "e", "d" }

InitCell ==
  /\ cell_pc = "call"
  /\ cell_type \in CellTypes
  /\ cell_text \in CellTexts
  /\ cell_result = Empty

IdleCell ==
  /\ cell_pc = "idle"
  /\ cell_type = ""
  /\ cell_text = <<>>
  /\ cell_result = Empty

\* the conversion at the end of a <v> (lines 107-137), with an empty pool
FinalizeCell ==
  /\ cell_pc = "call"
  /\ UNCHANGED <<wsVars, addrVars, metaVars, extVars>>
  /\ cell_result' = cell_value_of(cell_type, cell_text, <<>>)
  /\ cell_pc' = "ret"
  /\ UNCHANGED <<cell_type, cell_text>>

\* ------------------------------------------------- the metadata pass
\* XLSXMetadataExtractor.extract_metadata reads the archive once, part by
\* part, and resolves the worksheet path after the last part.
MaxArchive == 3

\* XlsxMetadataPaths
WORKBOOK == "xl/workbook.xml"
SHARED_STRINGS == "xl/sharedStrings.xml"
WORKBOOK_RELS == "xl/_rels/workbook.xml.rels"
DEFAULT_WORKSHEET ==
  <<"x","l","/","w","o","r","k","s","h","e","e","t","s","/",
    "s","h","e","e","t","1",".","x","m","l">>

\* a part name whose bytes are not UTF-8
NonUtf8Name == "\\xff\\xfe.bin"
OtherName == "xl/styles.xml"
\* the name of the part at DEFAULT_WORKSHEET
WORKSHEET1 == "xl/worksheets/sheet1.xml"

\* the text of a part name, to compare with a computed path: the one name
\* of the model a computed path can be equal to is that of the worksheet
NameText(name) == IF name = WORKSHEET1 THEN DEFAULT_WORKSHEET ELSE <<"?">>

\* Target attributes of relationships
TargetRel ==
  <<"w","o","r","k","s","h","e","e","t","s","/","s","h","e","e","t","1",
    ".","x","m","l">>
TargetAbs ==
  <<"/","x","l","/","w","o","r","k","s","h","e","e","t","s","/",
    "s","h","e","e","t","2",".","x","m","l">>
TargetLists == <<"l","i","s","t","s","/","s","1",".","x","m","l">>

\* the r:id of a sheet that holds a double quote (r:id is any string; the Id
\* of a relationship is an xsd:ID and holds none)
RIdQuote == "r\"1"

\* The body of a part.  kind is "empty" (no bytes), "bad" (bytes that are no
\* well-formed XML wherever they stand, such as "<<"), "workbook",
\* "rels", "sst" or "data".  A shared-string body that is "bad" still has the
\* <si> entries that precede the error, and rest tells whether chunks
\* follow the chunk with the error.
Body(kind, sheets, rels, entries, rest) ==
  [kind |-> kind, sheets |-> sheets, rels |-> rels, entries |-> entries,
   rest |-> rest]
EmptyBody == Body("empty", <<>>, <<>>, <<>>, FALSE)
BadBody == Body("bad", <<>>, <<>>, <<>>, FALSE)
DataBody == Body("data", <<>>, <<>>, <<>>, FALSE)
Sheet(name, rid) == [name |-> name, rid |-> rid]
Rel(id, target) == [id |-> id, target |-> target]

WorkbookBodies ==
  { EmptyBody, BadBody,
    Body("workbook", << Sheet("S1", "rId1"), Sheet("S2", "rId2") >>, <<>>,
         <<>>, FALSE),
    Body("workbook", << Sheet("S1", RIdQuote), Sheet("S2", "") >>, <<>>,
         <<>>, FALSE) }
RelsBodies ==
  { EmptyBody, BadBody,
    Body("rels", <<>>, << Rel("rId1", TargetRel), Rel("rId2", TargetAbs) >>,
         <<>>, FALSE),
    Body("rels", <<>>, << Rel("rId1", TargetLists), Rel("rId2", <<>>) >>,
         <<>>, FALSE) }
SharedStringsBodies ==
  { Body("sst", <<>>, <<>>, << "a", "b" >>, FALSE),
    Body("bad", <<>>, <<>>, << "a" >>, TRUE),
    Body("bad", <<>>, <<>>, <<>>, FALSE) }

\* a worksheet: entries are its rows, for a "bad" body the rows that end
\* before the error; a well-formed worksheet may have no row at all
WorksheetBodies ==
  { Body("sheet", <<>>, <<>>, << "row1", "row2" >>, FALSE),
    Body("sheet", <<>>, <<>>, <<>>, FALSE),
    Body("bad", <<>>, <<>>, << "row1" >>, FALSE) }

Part(name, body) == [name |-> name, body |-> body]
Parts ==
  { Part(WORKBOOK, b) : b \in WorkbookBodies }
    \cup { Part(WORKBOOK_RELS, b) : b \in RelsBodies }
    \cup { Part(SHARED_STRINGS, b) : b \in SharedStringsBodies }
    \cup { Part(WORKSHEET1, b) : b \in WorksheetBodies }
    \cup { Part(OtherName, DataBody), Part(NonUtf8Name, DataBody),
           Part(NonUtf8Name, EmptyBody) }
Archives == SeqsUpTo(Parts, MaxArchive)
SheetNames == { "", "S1", "S2", "S3" }

\* file_name.decode("utf-8") succeeds  (lines 169-172)
Decodable(name) == name # NonUtf8Name

\* b"".join(chunks) of the bodies collected for one part name: two bodies
\* with bytes, one after the other, are not a well-formed document
Joined(chunks) ==
  LET with_bytes == SelectSeq(chunks, LAMBDA b : b.kind # "empty")
  IN IF with_bytes = <<>> THEN EmptyBody
     ELSE IF Len(with_bytes) = 1 THEN with_bytes[1]
     ELSE BadBody

\* _parse_workbook_xml (lines 50-77): the r:id of the first sheet with this
\* name; "" stands for None
RECURSIVE FirstSheetId(_, _)
FirstSheetId(sheets, name) ==
  IF sheets = <<>> THEN ""
  ELSE IF Head(sheets).name = name THEN Head(sheets).rid
       ELSE FirstSheetId(Tail(sheets), name)

parse_workbook_xml(chunks, name) ==
  LET xml_data == Joined(chunks)
  IN IF xml_data.kind = "workbook" THEN FirstSheetId(xml_data.sheets, name)
     ELSE ""

\* the path expression of line 94 is built by pasting r_id between double
\* quotes: an id with a quote in it is no valid predicate, and ElementPath
\* raises SyntaxError
IsQuoteFree(r_id) == r_id # RIdQuote

RECURSIVE FirstTarget(_, _)
FirstTarget(rels, r_id) ==
  IF rels = <<>> THEN <<>>
  ELSE IF Head(rels).id = r_id THEN Head(rels).target
       ELSE FirstTarget(Tail(rels), r_id)

\* _parse_rels_xml (lines 79-103): <<>> stands for None
parse_rels_xml(chunks, r_id) ==
  LET xml_data == Joined(chunks)
  IN IF xml_data.kind # "rels" THEN [raised |-> FALSE, target |-> <<>>]
     ELSE IF ~IsQuoteFree(r_id) THEN [raised |-> TRUE, target |-> <<>>]
     ELSE [raised |-> FALSE, target |-> FirstTarget(xml_data.rels, r_id)]

\* str.lstrip(chars): leading characters of the set are dropped
RECURSIVE lstrip(_, _)
lstrip(s, chars) ==
  IF s # <<>> /\ Head(s) \in chars THEN lstrip(Tail(s), chars) ELSE s

\* lines 203-204
target_path(relative_path) ==
  <<"x", "l", "/">> \o lstrip(lstrip(relative_path, {"/"}), {"x", "l", "/"})

Outcome(kind, error, path) == [kind |-> kind, error |-> error, path |-> path]

\* a resolution that wants a pool before anything else
resolve_requires_shared_strings(name, wb_chunks, rl_chunks, pool) ==
  IF pool = <<>> THEN Outcome("raised", "ValueError", <<>>)
  ELSE Outcome("returned", "", DEFAULT_WORKSHEET)

\* a resolution that looks the sheet up whether or not a name was given
resolve_always_lookup(name, wb_chunks, rl_chunks, pool) ==
  LET r_id == parse_workbook_xml(wb_chunks, name)
      rel == parse_rels_xml(rl_chunks, r_id)
  IN IF r_id # "" /\ ~rel.raised /\ rel.target # <<>>
     THEN Outcome("returned", "", target_path(rel.target))
     ELSE Outcome("raised", "ValueError", <<>>)

\* the code after the loop of extract_metadata (lines 186-209)
resolve(name, wb_chunks, rl_chunks, pool) ==
  IF name = "" THEN Outcome("returned", "", DEFAULT_WORKSHEET)
  ELSE LET r_id == parse_workbook_xml(wb_chunks, name)
       IN IF r_id = "" THEN Outcome("raised", "ValueError", <<>>)
          ELSE LET rel == parse_rels_xml(rl_chunks, r_id)
               IN IF rel.raised THEN Outcome("raised", "SyntaxError", <<>>)
                  ELSE IF rel.target = <<>>
                       THEN Outcome("raised", "ValueError", <<>>)
                       ELSE Outcome("returned", "", target_path(rel.target))

\* extract_metadata as a function of the archive: the loop (lines 168-184)
\* folded over the parts, then the resolution.  loc holds the locals.
Locals(wb, rl, pool, unread) ==
  [wb |-> wb, rl |-> rl, pool |-> pool, unread |-> unread]

\* a loop that takes the pool only once it has seen the workbook
part_step_after_workbook(loc, part, name) ==
  IF ~Decodable(part.name)
  THEN Locals(loc.wb, loc.rl, loc.pool, part.body.kind # "empty")
  ELSE IF part.name = SHARED_STRINGS
  THEN Locals(loc.wb, loc.rl,
              IF loc.wb # <<>> THEN part.body.entries ELSE loc.pool,
              part.body.kind = "bad" /\ part.body.rest)
  ELSE IF name # "" /\ part.name = WORKBOOK
  THEN Locals(Append(loc.wb, part.body), loc.rl, loc.pool, FALSE)
  ELSE IF name # "" /\ part.name = WORKBOOK_RELS
  THEN Locals(loc.wb, Append(loc.rl, part.body), loc.pool, FALSE)
  ELSE Locals(loc.wb, loc.rl, loc.pool, FALSE)

part_step(loc, part, name) ==
  IF ~Decodable(part.name)
  THEN Locals(loc.wb, loc.rl, loc.pool, part.body.kind # "empty")
  ELSE IF part.name = SHARED_STRINGS
  THEN Locals(loc.wb, loc.rl, part.body.entries,
              part.body.kind = "bad" /\ part.body.rest)
  ELSE IF name # "" /\ part.name = WORKBOOK
  THEN Locals(Append(loc.wb, part.body), loc.rl, loc.pool, FALSE)
  ELSE IF name # "" /\ part.name = WORKBOOK_RELS
  THEN Locals(loc.wb, Append(loc.rl, part.body), loc.pool, FALSE)
  ELSE Locals(loc.wb, loc.rl, loc.pool, FALSE)

Returned(kind, error, pool, path) ==
  [kind |-> kind, error |-> error, pool |-> pool, path |-> path]

RECURSIVE metadata_loop(_, _, _)
metadata_loop(parts, name, loc) ==
  IF loc.unread
  THEN Returned("raised", "UnfinishedIterationError", <<>>, <<>>)
  ELSE IF parts = <<>>
  THEN LET out == resolve(name, loc.wb, loc.rl, loc.pool)
       IN Returned(out.kind, out.error,
                   IF out.kind = "returned" THEN loc.pool ELSE <<>>, out.path)
  ELSE metadata_loop(Tail(parts), name, part_step(loc, Head(parts), name))

run_metadata(parts, name) ==
  metadata_loop(parts, name, Locals(<<>>, <<>>, <<>>, FALSE))

\* locals of extract_metadata before the loop (lines 159-166)
InitMeta ==
  /\ archive \in Archives
  /\ sheet_name \in SheetNames
  /\ pos = 0
  /\ workbook_chunks = <<>>
  /\ rels_chunks = <<>>
  /\ shared_strings_list = <<>>
  /\ undrained = FALSE
  /\ meta_pc = "start"
  /\ meta_error = ""
  /\ target_filepath = <<>>
  /\ last_op = ""
  /\ h_pc = "meta"
  /\ h_emitted = FALSE
  /\ opens = 0
  /\ pos2 = 0
  /\ pending = <<>>
  /\ streams = <<>>

IdleMeta ==
  /\ archive = <<>>
  /\ sheet_name = ""
  /\ pos = 0
  /\ workbook_chunks = <<>>
  /\ rels_chunks = <<>>
  /\ shared_strings_list = <<>>
  /\ undrained = FALSE
  /\ meta_pc = "idle"
  /\ meta_error = ""
  /\ target_filepath = <<>>
  /\ last_op = ""
  /\ h_pc = "idle"
  /\ h_emitted = FALSE
  /\ opens = 0
  /\ pos2 = 0
  /\ pending = <<>>
  /\ streams = <<>>

\* the state of the streams of a source.  A stream is a generator that
\* holds its file or connection inside a with statement (sources/local.py
\* lines 56-62): it closes when it is run to its end, and when the last
\* reference to it goes away.
\* the decoder has read the stream to its end
close_last(ss) == [ss EXCEPT ![Len(ss)] = "closed"]

\* an exception leaves the loop: the traceback of the exception keeps the
\* frames, and with them the stream, for as long as the caller keeps the
\* exception
after_raise(ss) == { ss, close_last(ss) }

\* a runtime that leaves a dropped generator as it is
left_on_drop(ss) == ss

\* the row sequence is dropped or closed at a yield: the generators of the
\* row pass are finalized one after the other, down to the stream
finalized_on_drop(ss) == close_last(ss)

\* the for statement of line 168 opens the source: get_stream is called
OpenMetaStream ==
  /\ meta_pc = "start"
  /\ UNCHANGED <<wsVars, addrVars, cellVars, extVars>>
  /\ streams' = Append(streams, "open")
  /\ meta_pc' = "loop"
  /\ opens' = opens + 1
  /\ UNCHANGED <<archive, sheet_name, pos, workbook_chunks, rels_chunks,
                 shared_strings_list, undrained, meta_error, target_filepath,
                 last_op, h_pc, h_emitted, pos2, pending>>

\* stream_unzip is asked for the next part, or for the end of the archive,
\* while the part before still has unread bytes: it raises
\* UnfinishedIterationError out of the loop (line 168)
UnfinishedIteration ==
  /\ meta_pc = "loop" /\ undrained
  /\ UNCHANGED <<wsVars, addrVars, cellVars, extVars>>
  /\ streams' \in after_raise(streams)
  /\ meta_pc' = "raised"
  /\ meta_error' = "UnfinishedIterationError"
  /\ UNCHANGED <<archive, sheet_name, pos, workbook_chunks, rels_chunks,
                 shared_strings_list, undrained, target_filepath, last_op,
                 h_pc, h_emitted, opens, pos2, pending>>

\* one iteration of the loop (lines 168-184)
ProcessPart ==
  /\ meta_pc = "loop" /\ ~undrained /\ pos < Len(archive)
  /\ UNCHANGED <<wsVars, addrVars, cellVars, extVars>>
  /\ UNCHANGED streams
  /\ pos' = pos + 1
  /\ LET part == archive[pos + 1]
     IN IF ~Decodable(part.name)
        THEN /\ last_op' = "skip"
             /\ undrained' = (part.body.kind # "empty")
             /\ UNCHANGED <<shared_strings_list, workbook_chunks, rels_chunks>>
        ELSE IF part.name = SHARED_STRINGS
        THEN /\ last_op' = "parse_shared_strings"
             /\ shared_strings_list' = part.body.entries
             /\ undrained' = (part.body.kind = "bad" /\ part.body.rest)
             /\ UNCHANGED <<workbook_chunks, rels_chunks>>
        ELSE IF sheet_name # "" /\ part.name = WORKBOOK
        THEN /\ last_op' = "collect_workbook"
             /\ workbook_chunks' = Append(workbook_chunks, part.body)
             /\ undrained' = FALSE
             /\ UNCHANGED <<shared_strings_list, rels_chunks>>
        ELSE IF sheet_name # "" /\ part.name = WORKBOOK_RELS
        THEN /\ last_op' = "collect_rels"
             /\ rels_chunks' = Append(rels_chunks, part.body)
             /\ undrained' = FALSE
             /\ UNCHANGED <<shared_strings_list, workbook_chunks>>
        ELSE /\ last_op' = "drain"
             /\ undrained' = FALSE
             /\ UNCHANGED <<shared_strings_list, workbook_chunks, rels_chunks>>
  /\ UNCHANGED <<archive, sheet_name, meta_pc, meta_error, target_filepath,
                 h_pc, h_emitted, opens, pos2, pending>>

\* the archive is exhausted and the sheet is resolved (lines 186-209)
Resolve ==
  /\ meta_pc = "loop" /\ ~undrained /\ pos = Len(archive)
  /\ UNCHANGED <<wsVars, addrVars, cellVars, extVars>>
  /\ streams' = close_last(streams)
  /\ LET out == resolve(sheet_name, workbook_chunks, rels_chunks,
                        shared_strings_list)
     IN /\ meta_pc' = out.kind
        /\ meta_error' = out.error
        /\ target_filepath' = out.path
  /\ UNCHANGED <<archive, sheet_name, pos, workbook_chunks, rels_chunks,
                 shared_strings_list, undrained, last_op, h_pc, h_emitted,
                 opens, pos2, pending>>

\* XlsxHandler.stream_rows after extract_metadata returned: the reader is
\* built and its stream_rows opens the source a second time
\* (xlsx_handler.py lines 94-101, xlsx_generator.py line 188)
\* the handler goes on as soon as the metadata pass has merely begun
\* (a reader built and started alongside the extractor)
metadata_begun == meta_pc \in {"loop", "returned"}

\* the call of extract_metadata has returned (xlsx_handler.py lines 82-84):
\* the handler gets to its next statement only then
metadata_ready == meta_pc = "returned"

OpenRowStream ==
  /\ h_pc = "meta" /\ metadata_ready
  /\ UNCHANGED <<wsVars, addrVars, cellVars, extVars>>
  /\ streams' = Append(streams, "open")
  /\ h_pc' = "rows"
  /\ opens' = opens + 1
  /\ pos2' = 0
  /\ UNCHANGED <<archive, sheet_name, pos, workbook_chunks, rels_chunks,
                 shared_strings_list, undrained, meta_pc, meta_error,
                 target_filepath, last_op, h_emitted, pending>>

\* one iteration of the loop of StreamingXlsxReader.stream_rows
\* (xlsx_generator.py lines 188-198): the name is decoded without a guard;
\* the target worksheet is parsed, every other part is drained
RowPassPart ==
  /\ h_pc = "rows" /\ pos2 < Len(archive)
  /\ UNCHANGED <<wsVars, addrVars, cellVars, extVars>>
  /\ IF Decodable(archive[pos2 + 1].name) THEN UNCHANGED streams
     ELSE streams' \in after_raise(streams)
  /\ pos2' = pos2 + 1
  /\ LET part == archive[pos2 + 1]
     IN IF ~Decodable(part.name)
        THEN h_pc' = "failed" /\ UNCHANGED pending
        ELSE IF NameText(part.name) = target_filepath
        THEN h_pc' = "sheet" /\ pending' = part.body.entries
        ELSE UNCHANGED <<h_pc, pending>>
  /\ UNCHANGED <<archive, sheet_name, pos, workbook_chunks, rels_chunks,
                 shared_strings_list, undrained, meta_pc, meta_error,
                 target_filepath, last_op, h_emitted, opens>>

\* a row of the worksheet reaches the caller of the handler
\* (xlsx_handler.py lines 101-108)
HandlerYield ==
  /\ h_pc = "sheet" /\ pending # <<>>
  /\ UNCHANGED <<wsVars, addrVars, cellVars, extVars>>
  /\ UNCHANGED streams
  /\ pending' = Tail(pending)
  /\ h_emitted' = TRUE
  /\ UNCHANGED <<archive, sheet_name, pos, workbook_chunks, rels_chunks,
                 shared_strings_list, undrained, meta_pc, meta_error,
                 target_filepath, last_op, h_pc, opens, pos2>>

\* the worksheet has no further row: iterparse reached the end of the part,
\* or the ParseError of a malformed part escapes and is wrapped in OSError
\* (xlsx_generator.py lines 194, 199-201)
SheetEnd ==
  /\ h_pc = "sheet" /\ pending = <<>>
  /\ UNCHANGED <<wsVars, addrVars, cellVars, extVars>>
  /\ IF archive[pos2].body.kind = "sheet" THEN UNCHANGED streams
     ELSE streams' \in after_raise(streams)
  /\ h_pc' = IF archive[pos2].body.kind = "sheet" THEN "rows" ELSE "failed"
  /\ UNCHANGED <<archive, sheet_name, pos, workbook_chunks, rels_chunks,
                 shared_strings_list, undrained, meta_pc, meta_error,
                 target_filepath, last_op, h_emitted, opens, pos2, pending>>

\* the archive is exhausted: the row stream ends normally
\* (xlsx_handler.py line 110)
RowPassEnd ==
  /\ h_pc = "rows" /\ pos2 = Len(archive)
  /\ UNCHANGED <<wsVars, addrVars, cellVars, extVars>>
  /\ streams' = close_last(streams)
  /\ h_pc' = "done"
  /\ UNCHANGED <<archive, sheet_name, pos, workbook_chunks, rels_chunks,
                 shared_strings_list, undrained, meta_pc, meta_error,
                 target_filepath, last_op, h_emitted, opens, pos2, pending>>

\* the caller drops the row sequence at a yield, rows still to come
\* (xlsx_handler.py line 108)
Drop ==
  /\ h_pc = "sheet" /\ pending # <<>>
  /\ Len(pending) < Len(archive[pos2].body.entries)
  /\ UNCHANGED <<wsVars, addrVars, cellVars, extVars>>
  /\ h_pc' = "dropped"
  /\ streams' = finalized_on_drop(streams)
  /\ UNCHANGED <<archive, sheet_name, pos, workbook_chunks, rels_chunks,
                 shared_strings_list, undrained, meta_pc, meta_error,
                 target_filepath, last_op, h_emitted, opens, pos2, pending>>

\* XlsxHandler.stream_rows when extract_metadata raised: the exception is
\* wrapped in OSError (xlsx_handler.py lines 112-114)
HandlerFail ==
  /\ h_pc = "meta" /\ meta_pc = "raised"
  /\ UNCHANGED <<wsVars, addrVars, cellVars, extVars>>
  /\ UNCHANGED streams
  /\ h_pc' = "failed"
  /\ UNCHANGED <<archive, sheet_name, pos, workbook_chunks, rels_chunks,
                 shared_strings_list, undrained, meta_pc, meta_error,
                 target_filepath, last_op, h_emitted, opens, pos2, pending>>

\* ------------------------------------------------------- IterableToFile
\* xlsx_generator.py, lines 238-272: an iterator of byte chunks read as a
\* file.  The bytes of the stream are numbered 1, 2, ... so that a read is
\* known by the positions it returns; what varies is how they are cut into
\* chunks (chunks may be empty).

MaxChunks == 3
MaxChunkLen == 2
MaxRead == 3

RECURSIVE Chunked(_, _)
\* the stream whose chunks have these lengths, numbered from byte `from`
Chunked(lens, from) ==
  IF lens = <<>> THEN <<>>
  ELSE << [i \in 1..Head(lens) |-> from + i - 1] >>
       \o Chunked(Tail(lens), from + Head(lens))

Chunkings == { Chunked(lens, 1) : lens \in SeqsUpTo(0..MaxChunkLen, MaxChunks) }

ReadSizes == (-2)..MaxRead

\* a loop condition that also pulls when the buffer already holds size bytes
need_more_inclusive(size, buf) == size < 0 \/ Len(buf) <= size

\* the condition of the filling loop (line 258)
need_more(size, buf) == size < 0 \/ Len(buf) < size

RECURSIVE fill(_, _, _)
\* the filling loop (lines 258-264): chunks are appended while more is
\* needed; StopIteration ends the loop
fill(buf, it, size) ==
  IF need_more(size, buf) /\ it # <<>>
  THEN fill(buf \o Head(it), Tail(it), size)
  ELSE [buffer |-> buf, iterator |-> it]

\* a rest of the buffer that begins one byte late
SliceFromNext(b, size) == SubSeq(b, size + 2, Len(b))

\* bytes[:size] and bytes[size:] for size >= 0
SliceTo(b, size) == SubSeq(b, 1, IF size < Len(b) THEN size ELSE Len(b))
SliceFrom(b, size) == SubSeq(b, size + 1, Len(b))

\* IterableToFile.__init__ (lines 242-244)
InitFile ==
  /\ iterator \in Chunkings
  /\ buffer = <<>>
  /\ read_size = 0
  /\ read_result = <<>>
  /\ before = [buffer |-> <<>>, iterator |-> iterator, reads |-> 0]
  /\ file_pc = "open"
  /\ pulled = <<>>
  /\ returned = <<>>

IdleFile ==
  /\ iterator = <<>>
  /\ buffer = <<>>
  /\ read_size = 0
  /\ read_result = <<>>
  /\ before = [buffer |-> <<>>, iterator |-> <<>>, reads |-> 0]
  /\ file_pc = "idle"
  /\ pulled = <<>>
  /\ returned = <<>>

\* IterableToFile.read (lines 252-272)
Read ==
  /\ file_pc = "open"
  /\ \E size \in ReadSizes :
       LET f == fill(buffer, iterator, size)
       IN /\ read_size' = size
          /\ iterator' = f.iterator
          /\ IF size < 0
             THEN read_result' = f.buffer /\ buffer' = <<>>
             ELSE /\ read_result' = SliceTo(f.buffer, size)
                  /\ buffer' = SliceFrom(f.buffer, size)
          /\ pulled' = pulled \o join(SubSeq(iterator, 1,
                                  Len(iterator) - Len(f.iterator)))
  /\ returned' = returned \o read_result'
  /\ before' = [buffer |-> buffer, iterator |-> iterator, reads |-> 1]
  /\ UNCHANGED file_pc
  /\ UNCHANGED <<wsVars, addrVars, cellVars, metaVars, cliVars, sstVars, csvVars, parseVars, rowsVars>>


\* ------------------------------------------------------- command line
\* cli.py, main (lines 13-74).  The reader, its source and the row stream
\* are collaborators of main: their outcomes are the ones their code can
\* produce (reader.py lines 71-123, sources/*.py constructors,
\* XlsxHandler.stream_rows, XLSXReader.to_csv).

MaxWritten == 2

\* the kinds of source argument: a file that exists, a path that does not
\* exist, a directory, S3 and HTTP locations with and without their client
\* library, an S3 URI without a key
Sources == {"file", "missing", "directory", "s3", "s3_no_boto3", "s3_no_key",
            "http", "http_no_httpx"}

\* XLSXReader.__init__ -> _create_source -> the constructor of the source
create_source(source) ==
  CASE source = "missing" -> "FileNotFoundError"
    [] source = "directory" -> "ValueError"
    [] source = "s3_no_key" -> "ValueError"
    [] source \in {"s3_no_boto3", "http_no_httpx"} -> "ImportError"
    [] OTHER -> ""

\* the except clause that takes an exception (lines 59-74), in their order
except_clause(exc) ==
  IF exc = "FileNotFoundError" THEN "FileNotFoundError"
  ELSE IF exc = "ImportError" THEN "ImportError"
  ELSE "Exception"

\* a front end that tells a missing dependency apart by its status
exit_code_distinct(clause) == IF clause = "ImportError" THEN 2 ELSE 1

\* raise typer.Exit(code=1) in each clause (lines 61, 67, 74)
exit_code_of(clause) == 1

\* the lines echoed with err=True by each clause (lines 60, 63-66, 69-73)
echo_of(clause, verbose) ==
  CASE clause = "FileNotFoundError" -> << "Error: File not found" >>
    [] clause = "ImportError" -> << "Error: Missing dependency" >>
    [] OTHER -> << "Error" >> \o (IF verbose THEN << "traceback" >> ELSE <<>>)

InitCli ==
  /\ cli_pc = "start"
  /\ cli_args \in [source : Sources, output : {"", "out.csv"},
                   verbose : BOOLEAN]
  /\ cli_exc = ""
  /\ stdout = 0
  /\ stderr = <<>>
  /\ exit_code = -1

IdleCli ==
  /\ cli_pc = "idle"
  /\ cli_args = [source |-> "file", output |-> "", verbose |-> FALSE]
  /\ cli_exc = ""
  /\ stdout = 0
  /\ stderr = <<>>
  /\ exit_code = -1

CliFrame == UNCHANGED <<wsVars, addrVars, cellVars, metaVars, fileVars, sstVars, csvVars, parseVars, rowsVars>>

\* reader = XLSXReader(source, sheet_name=sheet_name) (line 49)
CreateReader ==
  /\ cli_pc = "start"
  /\ cli_exc' = create_source(cli_args.source)
  /\ cli_pc' = IF cli_exc' = "" THEN "reader" ELSE "except"
  /\ UNCHANGED <<cli_args, stdout, stderr, exit_code>>
  /\ CliFrame

\* reader.to_csv(output) and the echo after it (lines 52-54); to_csv turns
\* every exception into OSError (reader.py lines 190-192)
ToCsv ==
  /\ cli_pc = "reader" /\ cli_args.output # ""
  /\ \E failed \in BOOLEAN :
       IF failed
       THEN /\ cli_exc' = "OSError" /\ cli_pc' = "except"
            /\ UNCHANGED <<stderr, exit_code>>
       ELSE /\ stderr' = Append(stderr, "CSV written to")
            /\ exit_code' = 0 /\ cli_pc' = "exited"
            /\ UNCHANGED cli_exc
  /\ UNCHANGED <<cli_args, stdout>>
  /\ CliFrame

\* one turn of the loop over reader.handler.stream_rows() (lines 56-57)
WriteRow ==
  /\ cli_pc = "reader" /\ cli_args.output = ""
  /\ stdout < MaxWritten
  /\ stdout' = stdout + 1
  /\ UNCHANGED <<cli_pc, cli_args, cli_exc, stderr, exit_code>>
  /\ CliFrame

\* the row stream ends and main returns
StreamEnds ==
  /\ cli_pc = "reader" /\ cli_args.output = ""
  /\ exit_code' = 0 /\ cli_pc' = "exited"
  /\ UNCHANGED <<cli_args, cli_exc, stdout, stderr>>
  /\ CliFrame

\* the row stream raises (xlsx_handler.py lines 112-114: always OSError)
StreamRaises ==
  /\ cli_pc = "reader" /\ cli_args.output = ""
  /\ cli_exc' = "OSError" /\ cli_pc' = "except"
  /\ UNCHANGED <<cli_args, stdout, stderr, exit_code>>
  /\ CliFrame

\* the except clauses (lines 59-74)
Except ==
  /\ cli_pc = "except"
  /\ LET clause == except_clause(cli_exc)
     IN /\ stderr' = stderr \o echo_of(clause, cli_args.verbose)
        /\ exit_code' = exit_code_of(clause)
  /\ cli_pc' = "exited"
  /\ UNCHANGED <<cli_args, cli_exc, stdout>>
  /\ CliFrame

\* ------------------------------------------- the shared-string part
\* _parse_shared_strings_xml (xlsx_metadata_extractor.py, lines 105-138) on
\* a well-formed document.  An element is its tag, its text and its
\* children; the pull parser delivers one "end" event per element, children
\* before their parent.

MaxSi == 2

Elem(tag, text, children) == [tag |-> tag, text |-> text, kids |-> children]

TagT == <<"t">>
TagSi == <<"s", "i">>

Blank == <<" ">>
T(text) == Elem(TagT, text, <<>>)
\* a run with its properties, as pretty-printed XML has it (blank text
\* between the tags)
Run(text) ==
  Elem(<<"r">>, Blank,
       << Elem(<<"r", "P", "r">>, Blank, << Elem(<<"r", "F", "o", "n", "t">>, <<>>, <<>>) >>), T(text) >>)
PlainRun(text) == Elem(<<"r">>, <<>>, << T(text) >>)
Phonetic(text) == Elem(<<"r", "P", "h">>, <<>>, << T(text) >>)
Si(children) == Elem(TagSi, IF Len(children) > 1 THEN Blank ELSE <<>>, children)

\* the <si> elements of the model: plain, empty, blank, rich text, rich text
\* with an empty run, and a string with a phonetic run
SiShapes ==
  { Si(<< T(<<"a">>) >>),
    Si(<< T(<<>>) >>),
    Si(<< T(Blank) >>),
    Si(<<>>),
    Si(<< Run(<<"B", "o", "l", "d">>), PlainRun(<<"N", "o", "r", "m", "a", "l">>) >>),
    Si(<< PlainRun(<<"x">>), Run(<<>>), PlainRun(<<"y">>) >>),
    Si(<< T(<<"k">>), Phonetic(<<"p">>) >>) }

SstDocs == { Elem(<<"s", "s", "t">>, <<>>, sis) : sis \in SeqsUpTo(SiShapes, MaxSi) }

\* str.endswith
endswith(str, suffix) ==
  /\ Len(str) >= Len(suffix)
  /\ SubSeq(str, Len(str) - Len(suffix) + 1, Len(str)) = suffix

RECURSIVE iter(_)
\* Element.iter(): the element, then its descendants, in document order
iter(elem) ==
  LET RECURSIVE over(_)
      over(es) == IF es = <<>> THEN <<>>
                  ELSE iter(Head(es)) \o over(Tail(es))
  IN << elem >> \o over(elem.kids)

RECURSIVE end_events(_)
\* the "end" events of an element: those of its children, then its own
end_events(elem) ==
  LET RECURSIVE over(_)
      over(es) == IF es = <<>> THEN <<>>
                  ELSE end_events(Head(es)) \o over(Tail(es))
  IN over(elem.kids) \o << elem >>

\* the texts of the <t> children of the element only
text_parts_of_children(elem) ==
  LET ts == SelectSeq(elem.kids,
                      LAMBDA t : endswith(t.tag, TagT) /\ t.text # <<>>)
  IN [i \in DOMAIN ts |-> ts[i].text]

\* text_parts (lines 128-132)
text_parts(elem) ==
  LET ts == SelectSeq(iter(elem),
                      LAMBDA t : endswith(t.tag, TagT) /\ t.text # <<>>)
  IN [i \in DOMAIN ts |-> ts[i].text]

\* locals before the loop (lines 110-111) and the events of the document
InitSst ==
  /\ sst_doc \in SstDocs
  /\ sst_events = end_events(sst_doc)
  /\ sst_strings = <<>>
  /\ sst_pc = "parse"

IdleSst ==
  /\ sst_doc = Elem(<<"s", "s", "t">>, <<>>, <<>>)
  /\ sst_events = <<>>
  /\ sst_strings = <<>>
  /\ sst_pc = "idle"

SstFrame == UNCHANGED <<wsVars, addrVars, cellVars, metaVars, fileVars, cliVars, csvVars, parseVars, rowsVars>>

\* one event of the loop (lines 117-134)
SstEvent ==
  /\ sst_pc = "parse" /\ sst_events # <<>>
  /\ LET elem == Head(sst_events)
     IN sst_strings' =
          IF endswith(elem.tag, TagSi)
          THEN Append(sst_strings, join(text_parts(elem)))
          ELSE sst_strings
  /\ sst_events' = Tail(sst_events)
  /\ UNCHANGED <<sst_doc, sst_pc>>
  /\ SstFrame

\* the chunks are exhausted: return shared_strings (line 138)
SstReturn ==
  /\ sst_pc = "parse" /\ sst_events = <<>>
  /\ sst_pc' = "returned"
  /\ UNCHANGED <<sst_doc, sst_events, sst_strings>>
  /\ SstFrame

\* ------------------------------------------------------- to_csv
\* XLSXReader.to_csv (reader.py, lines 151-192).  The sink is a path, a text
\* file object, a binary file object of the io module (open(.., "wb"),
\* io.BytesIO), or an instance of a class derived from typing.BinaryIO.
MaxLines == 2

Sinks == {"path", "bad_path", "text", "binary", "BinaryIO"}

\* isinstance(output, BinaryIO): the classes of the io module do not derive
\* from typing.BinaryIO
is_binary_io(sink) == sink = "BinaryIO"

\* the branch taken (lines 172-185)
branch_of(sink) ==
  IF sink \in {"path", "bad_path"} THEN "path"
  ELSE IF is_binary_io(sink) THEN "binary"
  ELSE "text"

\* what is handed to write: the bytes of the line, or their decoding
form_of(branch) == IF branch = "binary" THEN "bytes" ELSE "str"

\* write raises TypeError when a text sink is given bytes or a binary sink str
accepts(sink, form) ==
  IF sink \in {"binary", "BinaryIO"} THEN form = "bytes" ELSE form = "str"

InitCsv ==
  /\ csv_sink \in Sinks
  /\ csv_rows \in SeqsUpTo({"r1", "r2"}, MaxLines)
  /\ csv_rows0 = csv_rows
  /\ csv_fails \in BOOLEAN
  /\ csv_pc = "call"
  /\ csv_branch = ""
  /\ csv_written = <<>>
  /\ csv_file = "none"
  /\ csv_exc = ""

IdleCsv ==
  /\ csv_sink = "text"
  /\ csv_rows = <<>> /\ csv_rows0 = <<>>
  /\ csv_fails = FALSE
  /\ csv_pc = "idle"
  /\ csv_branch = ""
  /\ csv_written = <<>>
  /\ csv_file = "none"
  /\ csv_exc = ""

CsvFrame == UNCHANGED <<wsVars, addrVars, cellVars, metaVars, fileVars, cliVars, sstVars, parseVars, rowsVars>>

\* an exception leaves the try body: the with statement closes the file
\* to_csv opened, and the except clause raises OSError (lines 190-192)
CsvRaise ==
  /\ csv_file' = IF csv_file = "open" THEN "closed" ELSE csv_file
  /\ csv_exc' = "OSError"
  /\ csv_pc' = "raised"

\* the choice of the branch; the path branch opens the file (lines 172-175)
CsvBegin ==
  /\ csv_pc = "call"
  /\ csv_branch' = branch_of(csv_sink)
  /\ IF csv_sink = "bad_path"
     THEN CsvRaise
     ELSE /\ csv_file' = IF csv_sink = "path" THEN "open" ELSE "none"
          /\ csv_pc' = "loop"
          /\ UNCHANGED csv_exc
  /\ UNCHANGED <<csv_sink, csv_rows, csv_fails, csv_written, csv_rows0>>
  /\ CsvFrame

\* one turn of the loop over self.handler.stream_rows()
CsvRow ==
  /\ csv_pc = "loop" /\ csv_rows # <<>>
  /\ IF accepts(csv_sink, form_of(csv_branch))
     THEN /\ csv_written' = Append(csv_written,
                                   [line |-> Head(csv_rows),
                                    form |-> form_of(csv_branch)])
          /\ UNCHANGED <<csv_pc, csv_file, csv_exc>>
     ELSE CsvRaise /\ UNCHANGED csv_written
  /\ csv_rows' = Tail(csv_rows)
  /\ UNCHANGED <<csv_sink, csv_fails, csv_branch, csv_rows0>>
  /\ CsvFrame

\* the row stream raises
CsvStreamRaises ==
  /\ csv_pc = "loop" /\ csv_rows = <<>> /\ csv_fails
  /\ CsvRaise
  /\ UNCHANGED <<csv_sink, csv_rows, csv_fails, csv_branch, csv_written, csv_rows0>>
  /\ CsvFrame

\* the row stream ends: the with statement closes the file and to_csv returns
CsvEnd ==
  /\ csv_pc = "loop" /\ csv_rows = <<>> /\ ~csv_fails
  /\ csv_file' = IF csv_file = "open" THEN "closed" ELSE csv_file
  /\ csv_pc' = "returned"
  /\ UNCHANGED <<csv_sink, csv_rows, csv_fails, csv_branch, csv_written,
                 csv_exc, csv_rows0>>
  /\ CsvFrame

\* ------------------------------------------------- the part parsers alone
\* bodies joined into one document by a part parser
MaxJoined == 2

\* a document whose XML declaration names an encoding the runtime has no
\* codec for, such as <?xml version="1.0" encoding="foo"?><a/>
EncodingBody == Body("encoding", <<>>, <<>>, <<>>, FALSE)

\* what the XML parser makes of the joined bytes: a "tree", ParseError for
\* bytes that are not well-formed, LookupError when the declaration at the
\* start names an unknown encoding
fromstring(chunks) ==
  LET with_bytes == SelectSeq(chunks, LAMBDA b : b.kind # "empty")
  IN IF with_bytes # <<>> /\ Head(with_bytes).kind = "encoding"
     THEN "LookupError"
     ELSE IF Joined(chunks).kind \in {"bad", "encoding"} THEN "ParseError"
     ELSE "tree"

\* the except clauses of lines 74, 100 and 135
caught(error) == error = "ParseError"

ParserCalls ==
  { [fn |-> "_parse_workbook_xml", chunks |-> c, arg |-> a] :
      c \in SeqsUpTo(WorkbookBodies \cup {EncodingBody}, MaxJoined),
      a \in { "S1", "S2", "S3" } }
  \cup
  { [fn |-> "_parse_rels_xml", chunks |-> c, arg |-> a] :
      c \in SeqsUpTo(RelsBodies \cup {EncodingBody}, MaxJoined),
      a \in { "rId1", "rId2", RIdQuote } }
  \cup
  { [fn |-> "_parse_shared_strings_xml", chunks |-> <<b>>, arg |-> ""] :
      b \in SharedStringsBodies \cup {EmptyBody, EncodingBody} }

InitParse ==
  /\ \E call \in ParserCalls :
       /\ px_fn = call.fn
       /\ px_chunks = call.chunks
       /\ px_arg = call.arg
  /\ px_pc = "call"
  /\ px_result = <<>>
  /\ px_exc = ""

IdleParse ==
  /\ px_fn = "" /\ px_chunks = <<>> /\ px_arg = "" /\ px_pc = "idle"
  /\ px_result = <<>> /\ px_exc = ""

\* the value a parser returns when nothing leaves it
parsed(fn, chunks, arg) ==
  IF fn = "_parse_workbook_xml"
  THEN LET r_id == parse_workbook_xml(chunks, arg)
       IN IF r_id = "" THEN <<>> ELSE <<r_id>>
  ELSE IF fn = "_parse_rels_xml"
  THEN LET target == parse_rels_xml(chunks, arg).target
       IN IF target = <<>> THEN <<>> ELSE <<target>>
  ELSE Joined(chunks).entries

\* the exception that leaves a parser, "" when none does
escaping(fn, chunks, arg) ==
  LET outcome == fromstring(chunks)
  IN IF Joined(chunks).kind = "empty" THEN ""
     ELSE IF outcome # "tree"
     THEN (IF caught(outcome) THEN "" ELSE outcome)
     ELSE IF fn = "_parse_rels_xml" /\ parse_rels_xml(chunks, arg).raised
     THEN "SyntaxError"
     ELSE ""

\* one call of a part parser, from its first line to its return
ParseCall ==
  /\ px_pc = "call"
  /\ UNCHANGED <<wsVars, addrVars, cellVars, metaVars, fileVars, cliVars,
                 sstVars, csvVars, rowsVars>>
  /\ LET exc == escaping(px_fn, px_chunks, px_arg)
     IN /\ px_exc' = exc
        /\ px_pc' = IF exc = "" THEN "returned" ELSE "raised"
        /\ px_result' = IF exc = "" THEN parsed(px_fn, px_chunks, px_arg)
                        ELSE <<>>
  /\ UNCHANGED <<px_fn, px_chunks, px_arg>>

\* ------------------------------------------ rows from handler to reader
\* XlsxHandler._row_to_bytes (xlsx_handler.py, lines 48-65) and
\* XLSXReader.stream_rows (reader.py, lines 131-149).  The cells are text,
\* for which str() gives the text itself; UTF-8 encoding followed by decoding
\* gives the text back, so the bytes are written as text.
MaxCellLen == 2
MaxWidth == 2
MaxSheetRows == 2

CsvAlphabet == { "a", " ", ",", "\"", "\n" }
CellStrings == SeqsUpTo(CsvAlphabet, MaxCellLen)
ExtractorRows == SeqsUpTo(CellStrings, MaxWidth) \ { <<>> }

\* csv.writer with QUOTE_MINIMAL quotes a field that holds the delimiter,
\* the quote character or a character of the line terminator
needs_quotes(field) ==
  \E i \in DOMAIN field : field[i] \in { ",", "\"", "\r", "\n" }

RECURSIVE doubled(_)
doubled(field) ==
  IF field = <<>> THEN <<>>
  ELSE (IF Head(field) = "\"" THEN << "\"", "\"" >> ELSE << Head(field) >>)
         \o doubled(Tail(field))

written_field(field) ==
  IF needs_quotes(field) THEN << "\"" >> \o doubled(field) \o << "\"" >>
  ELSE field

RECURSIVE join_fields(_)
join_fields(values) ==
  IF Len(values) = 1 THEN written_field(values[1])
  ELSE written_field(Head(values)) \o << "," >> \o join_fields(Tail(values))

\* writer.writerow: a record of one empty field is written as two quotes
writerow(values) ==
  LET record == join_fields(values)
  IN (IF record = <<>> THEN << "\"", "\"" >> ELSE record) \o << "\r", "\n" >>

row_to_bytes(row) == writerow(row)

\* str.strip() with no argument
Whitespace == { " ", "\t", "\n", "\r" }
RECURSIVE rstrip(_, _)
rstrip(s, chars) ==
  IF s # <<>> /\ s[Len(s)] \in chars
  THEN rstrip(SubSeq(s, 1, Len(s) - 1), chars) ELSE s
strip(s) == rstrip(lstrip(s, Whitespace), Whitespace)

\* next(csv.reader(...)): the first record of the text, by the states of the
\* parser of the csv module (excel dialect, not strict)
RECURSIVE parse(_, _, _, _)
parse(chars, state, field, fields) ==
  IF chars = <<>> THEN Append(fields, field)
  ELSE
    LET c == Head(chars)
        rest == Tail(chars)
        newline == c \in { "\r", "\n" }
    IN CASE state = "START_RECORD" ->
              IF newline THEN <<>>
              ELSE parse(chars, "START_FIELD", field, fields)
         [] state = "START_FIELD" ->
              IF newline THEN Append(fields, <<>>)
              ELSE IF c = "\"" THEN parse(rest, "IN_QUOTED_FIELD", <<>>, fields)
              ELSE IF c = ","
              THEN parse(rest, "START_FIELD", <<>>, Append(fields, <<>>))
              ELSE parse(rest, "IN_FIELD", << c >>, fields)
         [] state = "IN_FIELD" ->
              IF newline THEN Append(fields, field)
              ELSE IF c = ","
              THEN parse(rest, "START_FIELD", <<>>, Append(fields, field))
              ELSE parse(rest, "IN_FIELD", Append(field, c), fields)
         [] state = "IN_QUOTED_FIELD" ->
              IF c = "\""
              THEN parse(rest, "QUOTE_IN_QUOTED_FIELD", field, fields)
              ELSE parse(rest, "IN_QUOTED_FIELD", Append(field, c), fields)
         [] state = "QUOTE_IN_QUOTED_FIELD" ->
              IF c = "\""
              THEN parse(rest, "IN_QUOTED_FIELD", Append(field, c), fields)
              ELSE IF c = ","
              THEN parse(rest, "START_FIELD", <<>>, Append(fields, field))
              ELSE IF newline THEN Append(fields, field)
              ELSE parse(rest, "IN_FIELD", Append(field, c), fields)

reader_next(row_str) == parse(row_str, "START_RECORD", <<>>, <<>>)

InitRows ==
  /\ rr_pc = "extractor"
  /\ rr_row = <<>>
  /\ rr_chunk = <<>>
  /\ rr_out = <<>>
  /\ rr_emitted = 0
  /\ rr_yielded = 0

IdleRows ==
  /\ rr_pc = "idle" /\ rr_row = <<>> /\ rr_chunk = <<>> /\ rr_out = <<>>
  /\ rr_emitted = 0 /\ rr_yielded = 0

RowsFrame ==
  UNCHANGED <<wsVars, addrVars, cellVars, metaVars, fileVars, cliVars,
              sstVars, csvVars, parseVars>>

\* the extractor emits a row and the handler yields its bytes
\* (xlsx_handler.py, lines 101-108)
HandlerRow ==
  /\ rr_pc = "extractor" /\ rr_emitted < MaxSheetRows
  /\ RowsFrame
  /\ \E row \in ExtractorRows :
       /\ rr_row' = row
       /\ rr_chunk' = row_to_bytes(row)
  /\ rr_emitted' = rr_emitted + 1
  /\ rr_pc' = "chunk"
  /\ rr_out' = <<>>
  /\ UNCHANGED rr_yielded

\* the body of the loop of XLSXReader.stream_rows (reader.py, lines 143-149)
ReaderRow ==
  /\ rr_pc = "chunk"
  /\ RowsFrame
  /\ LET row_str == strip(rr_chunk)
     IN IF row_str # <<>>
        THEN /\ rr_out' = << reader_next(row_str) >>
             /\ rr_yielded' = rr_yielded + 1
        ELSE /\ rr_out' = <<>>
             /\ UNCHANGED rr_yielded
  /\ rr_pc' = "extractor"
  /\ UNCHANGED <<rr_row, rr_chunk, rr_emitted>>

\* the extractor has no more rows: both generators end
RowsEnd ==
  /\ rr_pc = "extractor"
  /\ RowsFrame
  /\ rr_pc' = "done"
  /\ UNCHANGED <<rr_row, rr_chunk, rr_out, rr_emitted, rr_yielded>>

\* the groups that stand still while the reader's specifications run
IdleExt == IdleFile /\ IdleCli /\ IdleSst /\ IdleCsv /\ IdleParse /\ IdleRows

\* ------------------------------------------------------- specifications
vars == <<wsVars, addrVars, cellVars, metaVars, extVars>>

\* the worksheet row extractor
Init == InitWs /\ IdleAddr /\ IdleCell /\ IdleMeta /\ IdleExt
Next == NextWs
Spec == Init /\ [][Next]_vars

\* _address_to_index over a bounded set of addresses
InitAddrOnly == InitAddr /\ IdleWs /\ IdleCell /\ IdleMeta /\ IdleExt
NextAddr == CallAddressToIndex
SpecAddr == InitAddrOnly /\ [][NextAddr]_vars

\* cell finalization over a bounded set of texts
InitCellOnly == InitCell /\ IdleWs /\ IdleAddr /\ IdleMeta /\ IdleExt
NextCell == FinalizeCell
SpecCell == InitCellOnly /\ [][NextCell]_vars

\* the metadata pass and the handler around it
InitMetaOnly == InitMeta /\ IdleWs /\ IdleAddr /\ IdleCell /\ IdleExt
NextMeta ==
  \/ OpenMetaStream
  \/ ProcessPart
  \/ UnfinishedIteration
  \/ Resolve
  \/ OpenRowStream
  \/ RowPassPart
  \/ HandlerYield
  \/ SheetEnd
  \/ RowPassEnd
  \/ HandlerFail
  \/ Drop
SpecMeta == InitMetaOnly /\ [][NextMeta]_vars

\* a file over an iterator of chunks, read any number of times
IdleCore == IdleWs /\ IdleAddr /\ IdleCell /\ IdleMeta
InitFileOnly == InitFile /\ IdleCli /\ IdleSst /\ IdleCsv /\ IdleParse /\ IdleRows /\ IdleCore
NextFile == Read
SpecFile == InitFileOnly /\ [][NextFile]_vars

\* the command-line front end
InitCliOnly == InitCli /\ IdleFile /\ IdleSst /\ IdleCsv /\ IdleParse /\ IdleRows /\ IdleCore
NextCli ==
  \/ CreateReader
  \/ ToCsv
  \/ WriteRow
  \/ StreamEnds
  \/ StreamRaises
  \/ Except
SpecCli == InitCliOnly /\ [][NextCli]_vars

\* one cell with an inline string
InitInlineOnly == InitInline /\ IdleAddr /\ IdleCell /\ IdleMeta /\ IdleExt
SpecInline == InitInlineOnly /\ [][NextInline]_vars

\* the parser of the shared-string part
InitSstOnly == InitSst /\ IdleFile /\ IdleCli /\ IdleCsv /\ IdleParse /\ IdleRows /\ IdleCore
NextSst == SstEvent \/ SstReturn
SpecSst == InitSstOnly /\ [][NextSst]_vars

\* to_csv over a row stream
InitCsvOnly == InitCsv /\ IdleFile /\ IdleCli /\ IdleSst /\ IdleParse /\ IdleRows /\ IdleCore
NextCsv == CsvBegin \/ CsvRow \/ CsvStreamRaises \/ CsvEnd
SpecCsv == InitCsvOnly /\ [][NextCsv]_vars

\* the part parsers of the metadata pass, one call each
InitParseOnly == InitParse /\ IdleFile /\ IdleCli /\ IdleSst /\ IdleCsv /\ IdleRows /\ IdleCore
NextParse == ParseCall
SpecParse == InitParseOnly /\ [][NextParse]_vars

\* XLSXReader.stream_rows over the rows of the handler
InitRowsOnly == InitRows /\ IdleFile /\ IdleCli /\ IdleSst /\ IdleCsv /\ IdleParse /\ IdleCore
NextRows == HandlerRow \/ ReaderRow \/ RowsEnd
SpecRows == InitRowsOnly /\ [][NextRows]_vars

\* ===================================================== worksheet claims

\* C1: every emitted row has length 1 + the largest recorded column index,
\* position i holds the value recorded for column index i, and every
\* position without a recorded cell holds Empty.
C1_Densification ==
  pc = "yield" =>
    /\ Len(yielded) = 1 + Max(Keys(current_row))
    /\ \A i \in 0..(Len(yielded) - 1) :
         yielded[i + 1] = IF i \in Keys(current_row)
                          THEN DictGet(current_row, i)
                          ELSE Empty

\* C2: the end of a <row> emits a row exactly when a cell value was recorded
\* for it, and an emitted row is never the empty list.
C2_RowEmittedIffRecorded ==
  [][ (pc = "parse" /\ Top = "row" /\ Len(stack') < Len(stack)) =>
        /\ (current_row # <<>>) <=> (pc' = "yield")
        /\ pc' = "yield" => yielded' # <<>> ]_vars

IsPrefix(a, b) == Len(a) <= Len(b) /\ SubSeq(b, 1, Len(a)) = a

\* C3: rows are emitted in document order whatever their r attributes say:
\* at every moment the emitted rows are the first of the <row> elements that
\* had recorded cells, and when the sheet ends they are exactly all of them,
\* one row each, with no row inserted for a gap.
C3_DocumentOrder ==
  /\ IsPrefix(emitLog, docLog)
  /\ pc = "done" => emitLog = docLog

\* declared indices out of order and with a gap, emitted as they appear
C3_Witness == pc = "done" /\ emitLog = <<3, 1>>

\* the texts of the model that denote the integer i: decimal digits only
\* (WsTexts holds no blank, "+" or "_", and "-" only in front of "1")
RECURSIVE NumeralValue(_)
NumeralValue(s) ==
  IF Len(s) = 1 THEN DigitVal(s[1])
  ELSE 10 * NumeralValue(SubSeq(s, 1, Len(s) - 1)) + DigitVal(s[Len(s)])

DenotesIndex(text, i) ==
  /\ text # <<>>
  /\ \A j \in DOMAIN text : IsDigit(text[j])
  /\ NumeralValue(text) = i

\* C6: a cell of type s whose text is an integer i, 0 <= i < len(pool), is
\* given the value pool[i], however many cells reference that index, and the
\* pool is left as the caller passed it.
C6_SharedStringLookup ==
  /\ shared_strings = pool0
  /\ (fin.done /\ fin.via = "v" /\ fin.t = "s") =>
       \A i \in 0..(Len(pool0) - 1) :
          DenotesIndex(fin.text, i) =>
            /\ fin.value = StrV(pool0[i + 1])
            /\ address_to_index(fin.addr) \in Keys(current_row)
            /\ DictGet(current_row, address_to_index(fin.addr)) = StrV(pool0[i + 1])

\* two cells of one row reference index 0 and both hold pool[0]
C6_Witness ==
  /\ fin.done /\ fin.t = "s" /\ fin.text = <<"0">>
  /\ Len(current_row) = 2
  /\ current_row[1].v = StrV(PoolA) /\ current_row[2].v = StrV(PoolA)

\* the text of a cell is no index into the pool: not an integer, negative,
\* or >= len(pool)
BadIndex(text) == \A i \in 0..(Len(pool0) - 1) : ~DenotesIndex(text, i)

\* C7: a cell of type s whose text is no valid index is recorded as Empty at
\* its column and the event loop goes on: finalizing a cell never fails.
C7_BadIndexIsEmpty ==
  /\ fin.done => pc = "parse"
  /\ (fin.done /\ fin.via = "v" /\ fin.t = "s" /\ BadIndex(fin.text)) =>
       /\ fin.value = Empty
       /\ address_to_index(fin.addr) \in Keys(current_row)
       /\ DictGet(current_row, address_to_index(fin.addr)) = Empty
       /\ ~collecting_value

\* a negative index against a non-empty pool, recorded as Empty
C7_Witness ==
  /\ fin.done /\ fin.t = "s" /\ fin.text = <<"-", "1">>
  /\ pool0 # <<>> /\ fin.value = Empty /\ pc = "parse"

\* ======================================================= address claims

\* the alphabetic prefix of an address, and the place value of a letter
RECURSIVE AlphaPrefix(_)
AlphaPrefix(s) ==
  IF s = <<>> \/ Head(s) \in Range(Digits) THEN <<>>
  ELSE <<Head(s)>> \o AlphaPrefix(Tail(s))

LetterRank(c) ==
  CHOOSE k \in 1..26 : Upper[k] = c \/ Lower[k] = c

RECURSIVE Pow26(_)
Pow26(n) == IF n = 0 THEN 1 ELSE 26 * Pow26(n - 1)

RECURSIVE RankSum(_)
RankSum(letters) ==
  IF letters = <<>> THEN 0
  ELSE LetterRank(Head(letters)) * Pow26(Len(letters) - 1) + RankSum(Tail(letters))

\* C4: _address_to_index gives the zero-based bijective base-26 value of the
\* alphabetic prefix, whatever the case of the letters and the row digits:
\* A->0, Z->25, AA->26, AZ->51, BA->52, ZZ->701, AAA->702.
C4_AddressDecoding ==
  addr_pc = "ret" =>
    LET col == [i \in DOMAIN AlphaPrefix(address) |-> upper(AlphaPrefix(address)[i])]
    IN /\ index = RankSum(AlphaPrefix(address)) - 1
       /\ col = <<"A">> => index = 0
       /\ col = <<"Z">> => index = 25
       /\ col = <<"A", "A">> => index = 26
       /\ col = <<"A", "Z">> => index = 51
       /\ col = <<"B", "A">> => index = 52
       /\ col = <<"Z", "Z">> => index = 701
       /\ col = <<"A", "A", "A">> => index = 702

\* a mixed-case three-letter address decoded
C4_Witness ==
  addr_pc = "ret" /\ address = <<"a", "A", "a", "9", "9">> /\ index = 702

\* ========================================================== cell claims

HasAny(text, cs) == \E i \in DOMAIN text : text[i] \in cs

\* C5: a cell without type, or of type n, becomes an Integer when its text
\* has none of ".", "e", "E" and parses, a Float when it has one of them and
\* parses, the raw Text when parsing fails, and Empty when the text is empty.
C5_NumericInference ==
  (cell_pc = "ret" /\ cell_type \in {"", "n"}) =>
    cell_result =
      IF cell_text = <<>> THEN Empty
      ELSE IF ~HasAny(cell_text, {".", "e", "E"})
           THEN IF py_int(cell_text).ok THEN IntV(py_int(cell_text).n)
                ELSE StrV(cell_text)
           ELSE IF py_float(cell_text).ok
                THEN FloatV(py_float(cell_text).m, py_float(cell_text).e)
                ELSE StrV(cell_text)

\* ====================================================== metadata claims
PartsNamed(name) == SelectSeq(archive, LAMBDA p : p.name = name)
AllSheets == UNION { Range(p.body.sheets) : p \in Range(PartsNamed(WORKBOOK)) }
AllRels == UNION { Range(p.body.rels) : p \in Range(PartsNamed(WORKBOOK_RELS)) }

\* the targets of the relationships whose Id is the r:id of a sheet so named
TargetsOf(name) ==
  { r.target : r \in { q \in AllRels :
                         /\ q.target # <<>>
                         /\ \E sh \in AllSheets :
                              sh.name = name /\ sh.rid # "" /\ sh.rid = q.id } }

\* leading '/' removed, one leading "xl/" removed if present, "xl/" prepended
StripSlashes(t) == lstrip(t, {"/"})
NormalizedTarget(t) ==
  LET u == StripSlashes(t)
      v == IF Len(u) >= 3 /\ SubSeq(u, 1, 3) = <<"x", "l", "/">>
           THEN SubSeq(u, 4, Len(u)) ELSE u
  IN <<"x", "l", "/">> \o v

MetaEnded == meta_pc \in {"returned", "raised"}

\* C8: with a sheet name, extract_metadata returns the normalized Target of
\* the relationship whose Id is the r:id of the sheet so named; when no
\* sheet, or no relationship, matches (a part absent or without a match) it
\* fails with the sheet-not-found ValueError, returns no path, and the
\* handler has emitted no row.  Runs the ZIP decoder ended with its own
\* protocol error are left aside.
C8_NamedSheetResolution ==
  (MetaEnded /\ sheet_name # "" /\ meta_error # "UnfinishedIterationError") =>
     /\ ( /\ Len(PartsNamed(WORKBOOK)) = 1
          /\ Len(PartsNamed(WORKBOOK_RELS)) = 1
          /\ TargetsOf(sheet_name) # {} )
        => /\ meta_pc = "returned"
           /\ target_filepath \in
                { NormalizedTarget(t) : t \in TargetsOf(sheet_name) }
     /\ TargetsOf(sheet_name) = {}
        => /\ meta_pc = "raised"
           /\ meta_error = "ValueError"
           /\ target_filepath = <<>>
           /\ ~h_emitted

NoSharedStringsPart == PartsNamed(SHARED_STRINGS) = <<>>

\* C10: an archive without xl/sharedStrings.xml gives an empty pool and the
\* absence is no error: without a sheet name the pass returns, with one it
\* raises ValueError only when the lookup of the sheet finds no target.
C10_MissingSharedStrings ==
  (meta_pc # "idle" /\ NoSharedStringsPart) =>
     /\ shared_strings_list = <<>>
     /\ (meta_pc = "raised" /\ sheet_name = "")
          => meta_error = "UnfinishedIterationError"
     /\ (meta_pc = "raised" /\ meta_error = "ValueError")
          => LET r_id == parse_workbook_xml(workbook_chunks, sheet_name)
             IN \/ r_id = ""
                \/ parse_rels_xml(rels_chunks, r_id).target = <<>>

C10_Witness ==
  /\ meta_pc = "returned" /\ NoSharedStringsPart
  /\ Len(archive) = MaxArchive
  /\ sheet_name = "S1"
  /\ target_filepath = NormalizedTarget(TargetRel)
  /\ shared_strings_list = <<>>
  /\ h_emitted

\* ================================================== determinism claims
\* the same archive bytes with every part delivered in one chunk: no chunk
\* follows the chunk in which a parse error shows
OneChunk(part) == [part EXCEPT !.body.rest = FALSE]
Rechunked(parts) == [i \in DOMAIN parts |-> OneChunk(parts[i])]

\* what this run of extract_metadata gave the caller
RunResult ==
  Returned(meta_pc, meta_error,
           IF meta_pc = "returned" THEN shared_strings_list ELSE <<>>,
           target_filepath)

\* C11: a reader of the same bytes with the same sheet name gets the same
\* result (the same pool and path, hence the same rows, or the same error)
\* however the bytes are split into chunks: the result of this run is the
\* result of a reader that is handed every part in one chunk.
C11_ChunkingIndependent ==
  MetaEnded =>
     /\ RunResult = run_metadata(archive, sheet_name)
     /\ RunResult = run_metadata(Rechunked(archive), sheet_name)

\* ===================================================== handler claims
\* C12: one run of the handler opens the source at most twice and one
\* stream after the other: the second stream is opened only when the
\* metadata pass has returned, having read the first stream to its end;
\* a run that ends normally has opened it exactly twice, a run whose
\* metadata pass fails only once; no row is emitted before the metadata
\* pass has finished.
C12_TwoStreamsInSequence ==
  /\ opens \in 0..2
  /\ opens = 2 => (meta_pc = "returned" /\ pos = Len(archive))
  /\ h_pc \in {"rows", "sheet", "done"} => opens = 2
  /\ (h_pc = "failed" /\ meta_pc = "raised") => opens = 1
  /\ meta_pc = "loop" => (opens = 1 /\ pos2 = 0 /\ pending = <<>>)
  /\ h_emitted => (meta_pc = "returned" /\ opens = 2)

\* a run that has read three parts twice and emitted the rows of the sheet
C12_Witness ==
  /\ h_pc = "done" /\ opens = 2 /\ h_emitted
  /\ pos = MaxArchive /\ pos2 = MaxArchive
  /\ sheet_name = "S1"

\* C13: the body of every part is read to its end, or drained, before the
\* ZIP decoder is asked for the next part: the loop of the metadata pass
\* never stands before its next iteration with unread bytes in the part it
\* has just handled, and the decoder never has to refuse to go on.  (In the
\* row pass every iteration drains the part, parses it to its end, or
\* leaves the loop with an error.)
C13_EveryPartDrained ==
  /\ meta_pc = "loop" => ~undrained
  /\ meta_error # "UnfinishedIterationError"

\* the parts whose XML the reader parses: the shared strings, the workbook
\* and its relationships when a sheet is looked up, the target worksheet
IsParsed(p) ==
  \/ p.name = SHARED_STRINGS
  \/ sheet_name # "" /\ p.name \in {WORKBOOK, WORKBOOK_RELS}
  \/ meta_pc = "returned" /\ NameText(p.name) = target_filepath

\* C14: malformed XML in a part the reader parses makes the row stream fail:
\* the stream never ends normally after such a part, and no row is emitted
\* with a pool read from a malformed shared-string part.
C14_FailFast ==
  /\ h_pc = "done" =>
       \A p \in Range(archive) : IsParsed(p) => p.body.kind # "bad"
  /\ h_emitted =>
       \A p \in Range(PartsNamed(SHARED_STRINGS)) : p.body.kind # "bad"

\* everything the file still held when the last read began
Remaining == before.buffer \o join(before.iterator)

\* C15: a read of n >= 0 returns at most n bytes, the next bytes of the
\* stream, and returns fewer than n only when the iterator is exhausted and
\* nothing is left; a read of a negative size returns all the remaining
\* bytes; a read of 0 returns nothing and leaves buffer and iterator alone.
C15_ReadContract ==
  before.reads = 1 =>
    /\ read_result \o buffer \o join(iterator) = Remaining
    /\ read_size >= 0 =>
         /\ Len(read_result) <= read_size
         /\ Len(read_result) < read_size =>
              (iterator = <<>> /\ buffer = <<>>)
    /\ read_size < 0 =>
         (read_result = Remaining /\ buffer = <<>> /\ iterator = <<>>)
    /\ read_size = 0 =>
         /\ read_result = <<>>
         /\ buffer = before.buffer
         /\ iterator = before.iterator

\* a read of 3 bytes that began with bytes buffered, pulled two chunks and
\* left a byte in the buffer
C15_Witness ==
  /\ before.reads = 1 /\ read_size = 3 /\ Len(read_result) = 3
  /\ before.buffer # <<>>
  /\ Len(before.iterator) - Len(iterator) = 2
  /\ buffer # <<>>

\* C16: main ends with status 0 when the conversion completed and with
\* status 1 when anything failed, and then an error message has been written
\* to the error stream; no such message is written on success.
C16_ExitCodes ==
  LET errors == SelectSeq(stderr, LAMBDA m : m # "CSV written to" /\ m # "traceback")
  IN /\ exit_code \in {-1, 0, 1}
     /\ cli_pc = "exited" <=> exit_code # -1
     /\ cli_pc = "exited" =>
          /\ exit_code = 0 <=> cli_exc = ""
          /\ cli_exc # "" => (exit_code = 1 /\ Len(errors) = 1)
          /\ cli_exc = "" => errors = <<>>
     /\ create_source(cli_args.source) # "" => cli_pc # "reader"

\* a missing dependency reported and turned into status 1
C16_Witness ==
  /\ cli_pc = "exited" /\ cli_exc = "ImportError" /\ exit_code = 1
  /\ stderr = << "Error: Missing dependency" >>

\* the Boolean of the value model, which the reader never builds
BoolV(b) == [k |-> "bool", s |-> <<>>, n |-> IF b THEN 1 ELSE 0, e |-> 0]

\* C17: a cell of type b becomes Boolean true for the text "1", Boolean
\* false for the text "0", and the Text of its text otherwise.
C17_BooleanCells ==
  (cell_pc = "ret" /\ cell_type = "b") =>
    cell_result =
      IF cell_text = <<"1">> THEN BoolV(TRUE)
      ELSE IF cell_text = <<"0">> THEN BoolV(FALSE)
      ELSE StrV(cell_text)

\* C18: a cell of type str, e or of an unknown type keeps its text as Text,
\* whatever the text; only cells without type or of type n are converted.
C18_TextTypesUnchanged ==
  (cell_pc = "ret" /\ cell_type \in {"str", "e", "d"}) =>
    cell_result = StrV(cell_text)

RECURSIVE FlatText(_)
\* the text of the <t> elements inside an element, in document order
FlatText(elem) ==
  LET RECURSIVE Along(_)
      Along(es) == IF es = <<>> THEN <<>>
                   ELSE FlatText(Head(es)) \o Along(Tail(es))
  IN (IF elem.tag = <<"t">> THEN elem.text ELSE <<>>) \o Along(elem.kids)

\* the pool the document stands for: one entry per <si>, in order
PoolOf(doc) == [i \in DOMAIN doc.kids |-> FlatText(doc.kids[i])]

\* C20: the pool has one entry per <si> of the document, in document order,
\* each the concatenation of the texts of all the <t> inside that <si>:
\* while parsing it is the pool of the <si> ended so far, and the returned
\* pool is that of the whole document.
C20_PoolPerSi ==
  /\ sst_pc \in {"parse", "returned"} => IsPrefix(sst_strings, PoolOf(sst_doc))
  /\ sst_pc = "returned" => sst_strings = PoolOf(sst_doc)

\* a plain string followed by rich text, flattened
C20_Witness ==
  /\ sst_pc = "returned"
  /\ sst_strings = << <<"a">>, <<"B","o","l","d","N","o","r","m","a","l">> >>

\* C21: the path returned for a named sheet is the Target of its
\* relationship with the leading '/' removed, one leading "xl/" removed if
\* there is one, and "xl/" put in front; the rest of the Target is kept as it
\* is.
C21_PathNormalization ==
  (meta_pc = "returned" /\ sheet_name # "") =>
    \E t \in TargetsOf(sheet_name) : target_filepath = NormalizedTarget(t)

\* the form in which a sink takes the lines: bytes for a binary file
\* object, text for a text file object or a path
FormFor(sink) == IF sink \in {"binary", "BinaryIO"} THEN "bytes" ELSE "str"

\* C22: when the row stream ends and the path can be opened, to_csv returns
\* having handed every line, in order, to the sink, as bytes to a binary
\* file object and as text otherwise; the file it opened itself is closed
\* when it ends, however it ends, and a failure is an OSError.
C22_ToCsv ==
  /\ csv_pc \in {"returned", "raised"} =>
       /\ csv_file = IF csv_sink = "path" THEN "closed" ELSE "none"
       /\ csv_pc = "raised" <=> csv_exc = "OSError"
       /\ (~csv_fails /\ csv_sink # "bad_path") => csv_pc = "returned"
  /\ csv_pc = "returned" =>
       csv_written = [i \in DOMAIN csv_rows0 |->
                        [line |-> csv_rows0[i], form |-> FormFor(csv_sink)]]

C24_NonNegativeIndices == \A i \in Keys(current_row) : i >= 0

\* the joined bytes are empty, or no document the XML parser accepts
Malformed(chunks) == Joined(chunks).kind \in {"empty", "bad", "encoding"}

\* C25: a part parser called with empty or malformed XML returns: the
\* workbook and relationships parsers return None, the shared-strings
\* parser the entries collected before the error.
C25_ParsersNeverRaise ==
  (px_pc \in {"returned", "raised"} /\ Malformed(px_chunks)) =>
    /\ px_pc = "returned"
    /\ px_result = IF px_fn = "_parse_shared_strings_xml"
                   THEN Joined(px_chunks).entries ELSE <<>>

\* C26: the reader yields one row for every row the extractor emits, in the
\* same order, and the yielded row is the emitted row, cell by cell and
\* character by character.
C26_RoundTrip ==
  (rr_pc \in {"extractor", "done"} /\ rr_emitted > 0) =>
    /\ rr_out = << rr_row >>
    /\ rr_yielded = rr_emitted

\* the orders in which the parts of an archive can stand
Reorderings(parts) ==
  LET n == Len(parts)
      orders == { p \in [1..n -> 1..n] : \A i, j \in 1..n : p[i] = p[j] => i = j }
  IN { [i \in 1..n |-> parts[p[i]]] : p \in orders }

\* no two parts of the archive have the same name
DistinctNames(parts) ==
  \A i, j \in DOMAIN parts : parts[i].name = parts[j].name => i = j

WellFormed(parts) == \A i \in DOMAIN parts : parts[i].body.kind # "bad"

\* no part with the resolved worksheet path has a row
NoTargetRows ==
  \A i \in DOMAIN archive :
    (Decodable(archive[i].name) /\ NameText(archive[i].name) = target_filepath)
      => archive[i].body.entries = <<>>

\* C28: over a well-formed archive in which no part has the resolved
\* worksheet path, or in which that worksheet has no row, the row pass takes
\* every part, yields no row and ends normally.
C28_EmptyEndsNormally ==
  (h_pc \in {"done", "failed"} /\ meta_pc = "returned"
     /\ WellFormed(archive) /\ NoTargetRows) =>
    (h_pc = "done" /\ ~h_emitted /\ pos2 = Len(archive))

\* C29: after any reads of any sizes, the bytes returned so far followed by
\* the bytes in the buffer are the bytes of the chunks taken from the
\* iterator so far, and those followed by the chunks not yet taken are the
\* whole stream; a read that begins with the iterator exhausted and the
\* buffer empty returns nothing.
C29_NoByteLost ==
  file_pc = "open" =>
    /\ returned \o buffer = pulled
    /\ LET stream == pulled \o join(iterator)
       IN \A i \in DOMAIN stream : stream[i] = i
    /\ (before.reads = 1 /\ before.iterator = <<>> /\ before.buffer = <<>>)
         => read_result = <<>>

\* three bytes returned by more than one read, one byte buffered, a chunk
\* still to come
C29_Witness ==
  /\ returned = <<1, 2, 3>> /\ read_result # returned
  /\ buffer = <<4>> /\ iterator # <<>>

\* a <v> or <is> has just started and has begun collecting
BeginsCollecting ==
  /\ Len(stack') > Len(stack)
  /\ \/ stack'[Len(stack')] = "v" /\ collecting_value'
     \/ stack'[Len(stack')] = "is" /\ collecting_inline_text'

====
